---- MODULE Spec2Model ----
(***************************************************************************)
(* Adaptive concurrency and rate-control fabric of amazon-scraper-v2.      *)
(*                                                                         *)
(* The module holds several state machines over disjoint variable groups:  *)
(*   SpecCtl, SpecEpoch, SpecSem                                           *)
(*              worker side: AdaptiveController (adaptive.py) with the     *)
(*              processing loops, the pool supervisor and the application  *)
(*              of sync responses (worker.py)                              *)
(*   SpecAlloc, SpecCoord                                                  *)
(*              coordinator side: quota allocator and global-block FSM     *)
(*              (server.py)                                                *)
(*   SpecDb     task store: pull_tasks and the timeout sweep on the one    *)
(*              shared connection (database.py)                            *)
(*   SpecSettings                                                          *)
(*              PUT /api/settings (server.py)                              *)
(*   SpecFeeder task feeder, its queue and its consumers (worker.py)       *)
(*   SpecProc   one task through Worker._process_task (worker.py)          *)
(*   SpecBucket the global TokenBucket and its callers (adaptive.py)       *)
(*   SpecMetric the sliding window of MetricsCollector (metrics.py)        *)
(*   SpecSession                                                           *)
(*              session initialisation and rotation against the ready      *)
(*              event, under weak fairness of the awaited steps            *)
(*   SpecHealth one allocation pass over workers with fresh metrics        *)
(*   SpecLife   life cycle of a task row under the task endpoints          *)
(*   SpecDbLive SpecDb under weak fairness of the periodic timeout sweep   *)
(*   SpecTunnel tunnel channels, the rotation watcher and the channel      *)
(*              acquisition of a task (proxy.py, worker.py)                *)
(*   SpecWindow the window of task outcomes feeding the evaluation tick    *)
(*   SpecInflight                                                          *)
(*              slot acquisition and release of the processing loops       *)
(*   SpecTps    the cached TPS proxy and its refresh lock (proxy.py)       *)
(*   SpecVersion                                                           *)
(*              settings versions on the coordinator and on the worker     *)
(*   SpecShutdown                                                          *)
(*              Worker.stop against feeder, loops, pool and submitter,     *)
(*              under weak fairness of every step                          *)
(*   SpecBatch  result queue, batch submitter and the final flush          *)
(*   SpecResize the evaluation tick interleaved with the forced shrinks of *)
(*              the sync routine (adaptive.py, worker.py)                  *)
(* Each specification leaves the variables of the other groups at their    *)
(* initial values.                                                         *)
(***************************************************************************)
EXTENDS Integers, Naturals, Sequences, FiniteSets, TLC

\* ------------------------------------------------------------------------
\* Generic helpers
\* ------------------------------------------------------------------------
Max(a, b) == IF a >= b THEN a ELSE b
Min(a, b) == IF a <= b THEN a ELSE b

RECURSIVE SumOver(_, _)
SumOver(f, S) ==
    IF S = {} THEN 0
    ELSE LET x == CHOOSE y \in S : TRUE IN f[x] + SumOver(f, S \ {x})

SeqToSet(s) == { s[i] : i \in 1..Len(s) }

\* the function f as an explicit table of its values
Table(f) == f @@ << >>

\* ========================================================================
\* WORKER SIDE: AdaptiveController, processing loops, sync application
\* ========================================================================

\* ---- bounds of the worker model ----
MaxC       == 3     \* largest concurrency target / quota explored
MaxShrinks == 2     \* replacements of a semaphore in use explored in one behaviour
MaxClock   == 30    \* worker monotonic clock horizon (seconds)
TickStep   == 30    \* granularity of the clock (seconds)
MaxEpoch   == 2     \* largest global-block epoch a response carries
MaxVersion == 1     \* largest settings version a response carries

\* ---- program constants (config.py) ----
BLOCK_RATE_THRESHOLD   == 5    \* percent
MIN_SUCCESS_RATE       == 85   \* percent
TARGET_SUCCESS_RATE    == 95   \* percent
TARGET_LATENCY_S       == 6
MAX_LATENCY_S          == 10
BANDWIDTH_SOFT_CAP     == 80   \* percent
COOLDOWN_AFTER_BLOCK_S == 30
TUNNEL_COOLDOWN_S      == 60
MIN_SAMPLES            == 5

Loops == 1..MaxC

VARIABLES
    concurrency,      \* AdaptiveController._concurrency
    ctlMin,           \* AdaptiveController._min
    ctlMax,           \* AdaptiveController._max
    semValue,         \* _value of the semaphore object currently in _semaphore
    semWaiters,       \* its FIFO of waiting loops
    loopPc,           \* per processing loop: "off","idle","waiting","orphan","holding"
    loopOld,          \* per loop: its permit / wait belongs to a replaced semaphore
    cooldownUntil,    \* AdaptiveController._cooldown_until
    cooldownDuration, \* AdaptiveController._cooldown_duration
    decreaseFactor,   \* AdaptiveController._block_decrease_factor, in percent
    ctlJitter,        \* AdaptiveController._recovery_jitter, in percent
    wClock,           \* time.monotonic() of the worker process
    blockEpoch,       \* Worker._global_block_epoch
    settingsVersion,  \* Worker._settings_version
    shrinks,          \* number of replacements of a semaphore that loops held or awaited
    reacted,          \* history: epoch -> number of halving reactions to it
    lastQuota,        \* history: quota concurrency of the last applied quota, 0 if none
    lastSync          \* history: how the last applied sync response met the block epoch

ctlVars == << concurrency, ctlMin, ctlMax, semValue, semWaiters, loopPc, loopOld,
              cooldownUntil, cooldownDuration, decreaseFactor, ctlJitter, wClock,
              blockEpoch, settingsVersion, shrinks, reacted, lastQuota, lastSync >>

\* ---- coordinator state (server.py module globals) ----
Workers == {"w1", "w2", "w3"}
NoMetrics == [ none |-> TRUE ]
NoQuota == [ none |-> TRUE ]
NoReport == [ high |-> FALSE, cooling |-> FALSE, by |-> "none" ]

VARIABLES
    regOrder,          \* keys of _worker_registry in insertion order
    lastSeen,          \* _worker_registry[w]["last_seen"]
    workerMetrics,     \* _global_coordinator["worker_metrics"]: rates in percent, reported_at
    workerQuotas,      \* _global_coordinator["worker_quotas"]: concurrency, qps in 1/100
    globalBlockUntil,  \* _global_coordinator["global_block_until"]
    blockCount,        \* _global_coordinator["block_count"]
    recoveryEpoch,     \* _global_coordinator["recovery_epoch"]
    recoveryJitter,    \* _global_coordinator["recovery_jitter"]: worker -> percent
    blockTriggeredBy,  \* _global_coordinator["block_triggered_by"]
    cNow,              \* clock of the coordinator process (time.time / time.monotonic)
    gMaxConc,          \* _runtime_settings["global_max_concurrency"]
    gMaxQps,           \* _runtime_settings["global_max_qps"], in 1/100
    gMinConc,          \* _runtime_settings["min_concurrency"]
    coordHung,         \* the event loop is stuck inside _allocate_quotas
    lastAct,           \* history: kind of the last coordinator step
    lastReport         \* history: the last metrics report, as it met the block state

coordVars == << regOrder, lastSeen, workerMetrics, workerQuotas, globalBlockUntil,
                blockCount, recoveryEpoch, recoveryJitter, blockTriggeredBy, cNow,
                gMaxConc, gMaxQps, gMinConc, coordHung, lastAct, lastReport >>

\* ---- task store state (database.py, one shared aiosqlite connection) ----
NumTasks == 2      \* rows of the tasks table
Tasks == 1..NumTasks
Pullers == {"a", "b"}

VARIABLES
    taskRows,      \* tasks table as the connection sees it: status, timed_out
    dbCommitted,   \* tasks table as of the last commit
    inTxn,         \* sqlite3 Connection.in_transaction
    pullPc,        \* per pull_tasks call: the statement it executes next
    pullLimit,     \* per call: its count argument
    pullIds,       \* per call: ids of the rows its SELECT fetched
    sweepPc,       \* reset_timeout_tasks run by _timeout_task_loop
    handedOut      \* history: task -> pulls that returned it since it last became
                   \* pending (capped at 2)

dbVars == << taskRows, dbCommitted, inTxn, pullPc, pullLimit, pullIds, sweepPc,
             handedOut >>

\* ---- settings state (server.py module globals written by PUT /api/settings) ----
MaxPutVersion == 2   \* largest _settings_version explored
MaxFields     == 2   \* most keys one request body carries

VARIABLES
    srvSettings,   \* _runtime_settings, the keys of SettingKeys
    srvVersion,    \* _settings_version
    putOutcome     \* history: how the last PUT /api/settings ended

putVars == << srvSettings, srvVersion, putOutcome >>

\* ---- task feeder state (worker.py, Worker._task_feeder and its queue) ----
TaskQueueSize == 10  \* maxsize of Worker._task_queue (config.TASK_QUEUE_SIZE, scaled)
MaxPulls      == 3   \* non-empty pull responses explored in one behaviour

VARIABLES
    taskQueue,     \* Worker._task_queue: per entry the number of the response that
                   \* brought it, 0 for a None sentinel of stop()
    feederPc,      \* "start","pulling","putting","sleeping","exited"
    fetchCount,    \* count argument of the pull in flight
    respNo,        \* non-empty responses received so far
    pendingPuts,   \* tasks of the current response not yet put
    running,       \* Worker._running
    respPriority,  \* history: has_priority of the last non-empty response
    priorLen,      \* history: qsize when the last non-empty response arrived
    justEnqueued   \* history: the last step completed the puts of a response

feedVars == << taskQueue, feederPc, fetchCount, respNo, pendingPuts, running,
               respPriority, priorLen, justEnqueued >>

\* ---- task processing state (worker.py, one call of Worker._process_task) ----
MaxTries == 3        \* largest max_retries explored

VARIABLES
    wMaxRetries,   \* Worker._max_retries
    ptPc,          \* "idle", "loop" (at `while attempt < max_retries`), "returned"
    ptMode,        \* Worker._proxy_mode: "tps" or "tunnel"
    ptFast,        \* Worker.fast_mode
    ptAttempt,     \* local attempt
    ptMaxRetries,  \* local max_retries
    ptReturn,      \* "none", or the returned tuple: "success", "blocked", "failed"
    ptErrorType,   \* local last_error_type
    ptLastPut,     \* history: what the last _submit_result of this call carried
    ptResults,     \* history: results this call put on _result_queue
    ptIters,       \* history: loop iterations this call has run
    ptNeverReady   \* history: every iteration so far found no usable session

procVars == << wMaxRetries, ptPc, ptMode, ptFast, ptAttempt, ptMaxRetries, ptReturn,
               ptErrorType, ptLastPut, ptResults, ptIters, ptNeverReady >>

\* ---- rate limiter state (adaptive.py, TokenBucket) ----
\* time in ticks of half a second, tokens in quarters of a token, rates in
\* halves of a token per second: one tick at rate r adds r quarter tokens
MaxBucketClock == 5  \* horizon of the limiter's clock, in ticks
BucketCallers == {"c1", "c2"}

VARIABLES
    tbRate,        \* TokenBucket._rate
    tbBurst,       \* TokenBucket._burst, in tokens
    tbTokens,      \* TokenBucket._tokens
    tbLastRefill,  \* TokenBucket._last_refill
    tbNow,         \* time.monotonic()
    tbPc,          \* per caller of acquire(): "idle" or "sleeping"
    tbWake,        \* per sleeping caller: when its asyncio.sleep(wait) is over
    tbWaited,      \* history: per caller, its current or last call had to sleep
    tbReturns      \* history: tick -> number of acquire() calls that returned then

bucketVars == << tbRate, tbBurst, tbTokens, tbLastRefill, tbNow, tbPc, tbWake,
                 tbWaited, tbReturns >>

\* ---- metrics window state (metrics.py, MetricsCollector) ----
MaxSamples == 4      \* most records the window holds
MaxLatency == 3      \* largest latency recorded, in seconds

VARIABLES
    mRecords,      \* MetricsCollector._records: latencies, oldest first
    mP50,          \* latency_p50 of the last snapshot()
    mTotal,        \* total of the last snapshot()
    mFresh         \* history: the last step was a snapshot()

metricVars == << mRecords, mP50, mTotal, mFresh >>

\* ---- session state (worker.py, TPS mode: the one global AmazonSession) ----
Rotators == {"l1", "l2"}   \* processing loops that call _rotate_session

VARIABLES
    srReady,       \* Worker._session_ready.is_set()
    srSession,     \* Worker._session: "none", "new" (being initialised), "ok"
    srInitPc,      \* _init_session_tps: "start", "attempt", "done"
    srRotPc,       \* per loop, in _rotate_session: "idle", "lock", "prepare", "attempt"
    srLock,        \* holder of Worker._rotate_lock, "free" if none
    srAttempt,     \* `attempt` of the initialisation loop in progress
    srRecent,      \* time.monotonic() - _last_rotate_time < 5
    srTaskPc,      \* a task in _process_task: "idle", "waiting" (on the event), "woken"
    srLast         \* history: how the last step left the operation it belongs to

sessVars == << srReady, srSession, srInitPc, srRotPc, srLock, srAttempt, srRecent,
               srTaskPc, srLast >>

\* ---- task life cycle (database.py tasks table, server.py result endpoints) ----
LifeTasks == {"t1", "t2"}
LifeWorkers == {"a", "b"}
MaxFailures == 4     \* retry_count values followed

VARIABLES
    tkStatus,      \* tasks.status per task: "pending", "processing", "done", "failed"
    tkWorker,      \* tasks.worker_id per task, "null" if NULL
    tkRetry,       \* tasks.retry_count per task
    tkHeld,        \* per worker: tasks it pulled and has not yet reported or released
    tkLast         \* history: the last operation on the table

lifeVars == << tkStatus, tkWorker, tkRetry, tkHeld, tkLast >>

\* ---- tunnel channels (proxy.py, ProxyManager in tunnel mode; worker.py,
\*      the channel acquisition of _process_task and _ip_rotation_watcher) ----
VARIABLES
    chBlocked,     \* ChannelState.blocked of each channel
    chHasUrl,      \* ChannelState.proxy_url of each channel is not empty
    rrIndex,       \* ProxyManager._round_robin_index
    tunNow,        \* time.monotonic(), in ticks
    rotationAt,    \* ProxyManager._rotation_at
    watchPc,       \* _ip_rotation_watcher: "sleep" or "rebuild" (inside rebuild_all)
    rotations,     \* how many times handle_ip_rotation has returned True
    tnPc,          \* each task's position in the retry loop of _process_task
    tnAttempt,     \* each task's local attempt
    tnChannel,     \* the channel a task's request goes through, 0 for none
    tnWake,        \* the time a task's wait_for_rotation sleep ends
    tnSeen,        \* rotations at the moment a task last found no channel
    tnLast         \* the last step taken

tunVars == << chBlocked, chHasUrl, rrIndex, tunNow, rotationAt, watchPc, rotations,
              tnPc, tnAttempt, tnChannel, tnWake, tnSeen, tnLast >>

\* ---- outcomes in the metrics window (worker.py, _worker_loop step 5;
\*      metrics.py, MetricsCollector.record / snapshot) ----
MaxWindow == 5       \* most records the window holds

VARIABLES
    owRecords      \* MetricsCollector._records: how each task ended, oldest first

owVars == << owRecords >>

\* ---- in-flight accounting of the processing loops (worker.py,
\*      _worker_loop; adaptive.py, acquire / release; metrics.py) ----
VARIABLES
    ifPc,          \* each loop: "top" (at or inside acquire), "get" (waiting on
                   \* the task queue), "task" (inside _process_task), "exited"
    ifSem,         \* free slots of the controller's semaphore
    ifInflight,    \* MetricsCollector._inflight
    ifRunning,     \* Worker._running
    ifBalance,     \* history: each loop's acquire() returns minus release() calls
    ifLast         \* history: the last step taken

ifVars == << ifPc, ifSem, ifInflight, ifRunning, ifBalance, ifLast >>

\* ---- TPS proxy cache (proxy.py, _tps_get_proxy / _tps_refresh_proxy /
\*      _tps_report_blocked) ----
MaxProxies == 2      \* proxies the API hands out in one behaviour

VARIABLES
    tpPc,          \* each caller: "idle", "waiting" (queued on _fetch_lock),
                   \* "locked" (lock just taken), "fetching" (API call in
                   \* flight), "backoff" (sleep between attempts), "done"
    tpHolder,      \* the caller that holds _fetch_lock, 0 for none
    tpQueue,       \* the callers waiting on _fetch_lock, first come first
    tpCurrent,     \* _current_proxy: 0 for None, else the proxy's number
    tpValid,       \* now < _proxy_expire_at
    tpAttempt,     \* attempt of the holder's `for attempt in range(3)`
    tpInFlight,    \* API calls in flight
    tpFetched,     \* proxies handed out by the API so far
    tpCalls,       \* history: API calls each caller issued in its current call
    tpWaited,      \* history: the caller had to queue on the lock
    tpResult       \* what each caller's last call returned (0 for None)

tpsVars == << tpPc, tpHolder, tpQueue, tpCurrent, tpValid, tpAttempt, tpInFlight,
              tpFetched, tpCalls, tpWaited, tpResult >>

\* ---- result queue and batch submitter (worker.py) ----
BatchSize  == 2      \* _batch_size, scaled down from 10
MaxResults == 4      \* results the worker loops produce in one behaviour

VARIABLES
    rqQueue,       \* _result_queue: result numbers, oldest first
    sbBatch,       \* the local list `batch` of _batch_submitter
    sbPc,          \* _batch_submitter: "first" (waits for the first item),
                   \* "collect" (fills the batch inside the window),
                   \* "submitting" (inside _submit_batch), "exited"
    sbRunning,     \* Worker._running
    sbPool,        \* the loops that produce results: "running", "finished"
    sbProduced,    \* results put on the queue so far
    sbHanded,      \* history: the batches handed to _submit_batch, in order
    sbCleanup      \* _cleanup has flushed the queue

batchVars == << rqQueue, sbBatch, sbPc, sbRunning, sbPool, sbProduced, sbHanded, sbCleanup >>

\* ---- the stored target and the semaphore under interleaved resizes
\*      (adaptive.py _evaluate / _resize_semaphore, worker.py _settings_sync)
MaxResizes == 3      \* resizes followed in one behaviour

VARIABLES
    rzC,           \* AdaptiveController._concurrency
    rzMax,         \* AdaptiveController._max
    rzCap,         \* permits of the current semaphore when nothing is held
    rzLock,        \* _adjust_lock is held
    rzTurn,        \* the coroutine the event loop is running: "tick", "sync",
                   \* or "none" when every coroutine is suspended
    rzPc,          \* per coroutine: "idle", "computed" (new_c known),
                   \* "resized" (_resize_semaphore called, C not yet assigned)
    rzOld,         \* per coroutine: the old_value it passes to the resize
    rzNew,         \* per coroutine: its new_value
    rzTarget,      \* history: new_value of the last resize applied
    rzFromCurrent, \* history: every resize so far was passed the stored C
    rzResizes      \* resizes applied so far

rzVars == << rzC, rzMax, rzCap, rzLock, rzTurn, rzPc, rzOld, rzNew, rzTarget,
             rzFromCurrent, rzResizes >>

\* ---- shutdown of the pipeline (worker.py, Worker.stop and the coroutines
\*      gathered by Worker.start) ----
SdQueueSize == 4     \* maxsize of _task_queue, scaled down from 100

VARIABLES
    sdRunning,     \* Worker._running
    sdQueue,       \* _task_queue: 1 for a task, 0 for a None sentinel
    sdFeeder,      \* _task_feeder: "top" (at the while test), "pulling",
                   \* "putting" (inside the for loop of puts), "sleeping",
                   \* "exited"
    sdFetch,       \* count of the pull in flight
    sdPending,     \* tasks of the response still to put
    sdLoop,        \* per processing loop: "top" (at the while test), "get",
                   \* "process", "exited"
    sdPool,        \* _worker_pool: "watching", "gathering", "exited"
    sdSubmitter,   \* _batch_submitter: "running", "exited"
    sdResults,     \* _result_queue is not empty
    sdCleanup,     \* start() has reached _cleanup
    sdLast         \* history: the step taken last

sdVars == << sdRunning, sdQueue, sdFeeder, sdFetch, sdPending, sdLoop, sdPool,
             sdSubmitter, sdResults, sdCleanup, sdLast >>

vars == << ctlVars, coordVars, dbVars, putVars, feedVars, procVars, bucketVars, metricVars, sessVars, lifeVars, tunVars, owVars, ifVars, tpsVars, batchVars, rzVars, sdVars >>

\* what the steps of one side leave alone
notCtl   == << coordVars, dbVars, putVars, feedVars, procVars, bucketVars, metricVars, sessVars, lifeVars, tunVars, owVars, ifVars, tpsVars, batchVars, rzVars, sdVars >>
notCoord == << ctlVars, dbVars, putVars, feedVars, procVars, bucketVars, metricVars, sessVars, lifeVars, tunVars, owVars, ifVars, tpsVars, batchVars, rzVars, sdVars >>
notDb    == << ctlVars, coordVars, putVars, feedVars, procVars, bucketVars, metricVars, sessVars, lifeVars, tunVars, owVars, ifVars, tpsVars, batchVars, rzVars, sdVars >>
notPut   == << ctlVars, coordVars, dbVars, feedVars, procVars, bucketVars, metricVars, sessVars, lifeVars, tunVars, owVars, ifVars, tpsVars, batchVars, rzVars, sdVars >>
notFeed  == << ctlVars, coordVars, dbVars, putVars, procVars, bucketVars, metricVars, sessVars, lifeVars, tunVars, owVars, ifVars, tpsVars, batchVars, rzVars, sdVars >>
notProc == << ctlVars, coordVars, dbVars, putVars, feedVars, bucketVars, metricVars, sessVars, lifeVars, tunVars, owVars, ifVars, tpsVars, batchVars, rzVars, sdVars >>
notBucket == << ctlVars, coordVars, dbVars, putVars, feedVars, procVars, metricVars, sessVars, lifeVars, tunVars, owVars, ifVars, tpsVars, batchVars, rzVars, sdVars >>
notMetric == << ctlVars, coordVars, dbVars, putVars, feedVars, procVars, bucketVars, sessVars, lifeVars, tunVars, owVars, ifVars, tpsVars, batchVars, rzVars, sdVars >>
notSess == << ctlVars, coordVars, dbVars, putVars, feedVars, procVars, bucketVars, metricVars, lifeVars, tunVars, owVars, ifVars, tpsVars, batchVars, rzVars, sdVars >>
notLife == << ctlVars, coordVars, dbVars, putVars, feedVars, procVars, bucketVars, metricVars, sessVars, tunVars, owVars, ifVars, tpsVars, batchVars, rzVars, sdVars >>
notTun == << ctlVars, coordVars, dbVars, putVars, feedVars, procVars, bucketVars, metricVars, sessVars, lifeVars, owVars, ifVars, tpsVars, batchVars, rzVars, sdVars >>
notOw == << ctlVars, coordVars, dbVars, putVars, feedVars, procVars, bucketVars, metricVars, sessVars, lifeVars, tunVars, ifVars, tpsVars, batchVars, rzVars, sdVars >>
notIf == << ctlVars, coordVars, dbVars, putVars, feedVars, procVars, bucketVars, metricVars, sessVars, lifeVars, tunVars, owVars, tpsVars, batchVars, rzVars, sdVars >>
notTps == << ctlVars, coordVars, dbVars, putVars, feedVars, procVars, bucketVars, metricVars, sessVars, lifeVars, tunVars, owVars, ifVars, batchVars, rzVars, sdVars >>
notBatch == << ctlVars, coordVars, dbVars, putVars, feedVars, procVars, bucketVars, metricVars, sessVars, lifeVars, tunVars, owVars, ifVars, tpsVars, rzVars, sdVars >>
notRz == << ctlVars, coordVars, dbVars, putVars, feedVars, procVars, bucketVars, metricVars, sessVars, lifeVars, tunVars, owVars, ifVars, tpsVars, batchVars, sdVars >>
notSd == << ctlVars, coordVars, dbVars, putVars, feedVars, procVars, bucketVars, metricVars, sessVars, lifeVars, tunVars, owVars, ifVars, tpsVars, batchVars, rzVars >>

\* ========================================================================
\* COORDINATOR SIDE: worker registry, quota allocator, global-block FSM
\* ========================================================================

\* ---- program constants (server.py, config.py) ----
ACTIVE_WINDOW_S        == 60      \* a worker is active while now - last_seen < 60
METRICS_FRESH_S        == 90      \* metrics older than this score as "no data"
STALE_WORKER_S         == 600     \* registry eviction age
GLOBAL_MAX_CONCURRENCY == 50
GLOBAL_MAX_QPS         == 450     \* 4.5 qps, in 1/100
MIN_CONCURRENCY        == 2
DEFAULT_SCORE          == 5000    \* 0.5, in 1/10000
MIN_SCORE              == 1000    \* 0.1
MAX_SCORE              == 10000   \* 1.0
BLOCK_PENALTY          == 5       \* score = sr * max(0, 1 - 5 * br)
DEFAULT_JITTER         == 50      \* recovery_jitter.get(wid, 0.5), in percent
QPS_FLOOR              == 10      \* 0.1 qps, in 1/100
COOLDOWN_QPS_PER_WORKER == 50     \* 0.5 qps, in 1/100

\* ---- bounds of the coordinator model ----
CoordMaxClock == 30     \* horizon of the 30-second ticks of the coordinator clock
AllocNow      == 1000   \* clock reading at which the allocator inputs are drawn

\* random.random() draws explored for a recovery jitter, in percent
JitterDraws == {0, 99}

\* a metrics report (success_rate, block_rate in percent)
Report(sr, br) == [ success_rate |-> sr, block_rate |-> br ]

\* the module globals as one value
CoordState ==
    [ order |-> regOrder, seen |-> lastSeen, metrics |-> workerMetrics,
      quotas |-> workerQuotas, until |-> globalBlockUntil, count |-> blockCount,
      epoch |-> recoveryEpoch, jitter |-> recoveryJitter, by |-> blockTriggeredBy,
      hung |-> coordHung ]

SetCoord(g) ==
    /\ regOrder' = g.order
    /\ lastSeen' = g.seen
    /\ workerMetrics' = g.metrics
    /\ workerQuotas' = g.quotas
    /\ globalBlockUntil' = g.until
    /\ blockCount' = g.count
    /\ recoveryEpoch' = g.epoch
    /\ recoveryJitter' = g.jitter
    /\ blockTriggeredBy' = g.by
    /\ coordHung' = g.hung

\* _register_worker: insert at the end of the dict if new, refresh last_seen
RegisterWorker(g, w) ==
    [g EXCEPT !.order = IF w \in SeqToSet(@) THEN @ ELSE Append(@, w),
              !.seen[w] = cNow]

\* active workers, in registry (dict) order
IsActiveInclusive(g, w) == cNow - g.seen[w] <= ACTIVE_WINDOW_S
IsActive(g, w) == cNow - g.seen[w] < ACTIVE_WINDOW_S
ActiveWorkers(g) == SelectSeq(g.order, LAMBDA w : IsActive(g, w))

\* health score in 1/10000
Score(g, w) ==
    LET m == g.metrics[w] IN
    IF m = NoMetrics \/ cNow - m.reported_at > METRICS_FRESH_S
    THEN DEFAULT_SCORE
    ELSE Max(MIN_SCORE,
             Min(MAX_SCORE, m.success_rate * Max(0, 100 - BLOCK_PENALTY * m.block_rate)))

RECURSIVE GCD(_, _)
GCD(a, b) == IF b = 0 THEN a ELSE GCD(b, a % b)

RECURSIVE GCDOver(_, _)
GCDOver(f, S) ==
    IF S = {} THEN 0
    ELSE LET x == CHOOSE y \in S : TRUE IN GCD(f[x], GCDOver(f, S \ {x}))

\* the scores of the active set reduced by their common divisor: only the
\* ratio scores[wid] / total_score enters the allocation
Scores(g, S) ==
    LET score == Table([w \in S |-> Score(g, w)])
        k     == GCDOver(score, S)
    IN  Table([w \in S |-> score[w] \div k])

\* sorted(int_conc, key=value, reverse=True): stable, ties keep dict order
RECURSIVE SortedDesc(_, _)
SortedDesc(ic, act) ==
    IF act = << >> THEN << >>
    ELSE LET w    == act[Len(act)]
             rest == SortedDesc(ic, SubSeq(act, 1, Len(act) - 1))
             k    == Cardinality({ i \in 1..Len(rest) : ic[rest[i]] >= ic[w] })
         IN  SubSeq(rest, 1, k) \o << w >> \o SubSeq(rest, k + 1, Len(rest))

\* one "for wid in sorted(...)" pass of the final trim
RECURSIVE TrimPass(_, _, _, _)
TrimPass(ic, order, total, eff) ==
    IF order = << >> THEN ic
    ELSE LET w == Head(order) IN
         TrimPass(IF ic[w] > eff /\ SumOver(ic, DOMAIN ic) > total
                  THEN [ic EXCEPT ![w] = @ - 1] ELSE ic,
                  Tail(order), total, eff)

\* "while sum > total_conc": the loop never exits once every worker sits at
\* the effective floor while the sum still exceeds the budget
Hang == [ hang |-> TRUE ]
RECURSIVE GreedyTrim(_, _, _, _)
GreedyTrim(ic, act, total, eff) ==
    IF SumOver(ic, DOMAIN ic) <= total THEN ic
    ELSE IF \A w \in DOMAIN ic : ic[w] <= eff THEN Hang
    ELSE GreedyTrim(TrimPass(ic, SortedDesc(ic, act), total, eff), act, total, eff)

\* round(x, 2) of a float that approximates n / d hundredths: to the nearest
\* hundredth; when n / d lies exactly between two hundredths the float's own
\* error decides, so either neighbour can come out (up says which)
RoundCenti(n, d, up) ==
    LET q == n \div d
        r == n % d
    IN  IF 2 * r > d THEN q + 1
        ELSE IF 2 * r < d THEN q
        ELSE IF up THEN q + 1 ELSE q

\* budgets of a pass: concurrency, and qps in 1/200 (so that halving is exact)
InCooldown(g) == cNow < g.until
TotalConcUnhalved(g, n) == gMaxConc
TotalConc(g, n) ==
    IF InCooldown(g) THEN Max(n * gMinConc, gMaxConc \div 2) ELSE gMaxConc
TotalQps(g, n) ==
    IF InCooldown(g) THEN Max(n * 2 * COOLDOWN_QPS_PER_WORKER, gMaxQps) ELSE 2 * gMaxQps

\* (0.5 + 0.5 * jitter) in 1/200 during cooldown, 1 otherwise
JitterFactor(g, w) ==
    IF InCooldown(g)
    THEN 100 + (IF w \in DOMAIN g.jitter THEN g.jitter[w] ELSE DEFAULT_JITTER)
    ELSE 200

\* concurrency quotas of a pass: floor, effective minimum, proportional cut,
\* final trim.  Hang if the final trim cannot terminate.
ConcQuotas(g, act) ==
    LET S     == SeqToSet(act)
        n     == Len(act)
        total == TotalConc(g, n)
        score == Scores(g, S)
        den   == SumOver(score, S) * 200
        eff   == Min(gMinConc, Max(1, total \div n))
        ic0   == Table([w \in S |->
                        Max(eff, (total * score[w] * JitterFactor(g, w)) \div den)])
        sum0  == SumOver(ic0, S)
        red   == Table([w \in S |-> Max(0, ic0[w] - eff)])
        tred  == SumOver(red, S)
        ic1   == IF tred > 0
                 THEN [w \in S |-> Max(eff, ic0[w] - ((sum0 - total) * red[w]) \div tred)]
                 ELSE ic0
    IN  IF sum0 > total THEN GreedyTrim(ic1, act, total, eff) ELSE ic0

\* qps shares of a pass after the 0.1 floor, as fractions << n, d >> of 1/100:
\* proportional share, rescaled if the shares exceed the budget
QpsShares(g, act) ==
    LET S     == SeqToSet(act)
        n     == Len(act)
        total == TotalQps(g, n)
        score == Scores(g, S)
        den   == SumOver(score, S) * 200
        num   == Table([w \in S |-> total * score[w] * JitterFactor(g, w)])
        sum   == SumOver(num, S)
        over  == sum > total * den /\ sum > 0
        d     == IF over THEN 2 * den * sum ELSE 2 * den
    IN  [w \in S |->
            << Max(QPS_FLOOR * d, IF over THEN num[w] * total * den ELSE num[w]), d >>]

\* _allocate_quotas: the module globals a pass can leave behind, one per way
\* the exact qps ties round
AllocateQuotas(g) ==
    LET act == ActiveWorkers(g) IN
    IF act = << >>
    THEN { [g EXCEPT !.quotas = [w \in Workers |-> NoQuota]] }
    ELSE LET conc == ConcQuotas(g, act)
             sh   == QpsShares(g, act)
             ties == { w \in SeqToSet(act) : 2 * (sh[w][1] % sh[w][2]) = sh[w][2] }
         IN  IF conc = Hang
             THEN { [g EXCEPT !.hung = TRUE] }
             ELSE { [g EXCEPT !.quotas =
                       [w \in Workers |->
                           IF w \in SeqToSet(act)
                           THEN [ concurrency |-> conc[w],
                                  qps |-> RoundCenti(sh[w][1], sh[w][2], w \in ups) ]
                           ELSE NoQuota]]
                    : ups \in SUBSET ties }

\* block_rate > threshold and now >= global_block_until, ignoring the cooldown
TriggersBlockAnytime(g, m) ==
    m.block_rate > BLOCK_RATE_THRESHOLD

\* block_rate > threshold and now >= global_block_until
TriggersBlockAtThreshold(g, m) ==
    m.block_rate >= BLOCK_RATE_THRESHOLD /\ cNow >= g.until
TriggersBlock(g, m) ==
    m.block_rate > BLOCK_RATE_THRESHOLD /\ cNow >= g.until

\* the jitter tables a block trigger can draw: one value per registered worker
JitterTables(g) ==
    { [w \in DOMAIN g.jitter \cup SeqToSet(g.order) |->
          IF w \in SeqToSet(g.order) THEN j[w] ELSE g.jitter[w]]
        : j \in [SeqToSet(g.order) -> JitterDraws] }

\* _handle_worker_metrics, with jit the table drawn if the block triggers
HandleWorkerMetrics(g, w, m, jit) ==
    LET g1 == [g EXCEPT !.metrics[w] =
                  [ success_rate |-> m.success_rate, block_rate |-> m.block_rate,
                    reported_at |-> cNow ]]
    IN  IF TriggersBlock(g, m)
        THEN AllocateQuotas([g1 EXCEPT !.until = cNow + COOLDOWN_AFTER_BLOCK_S,
                                       !.by = w,
                                       !.count = @ + 1,
                                       !.epoch = @ + 1,
                                       !.jitter = jit])
        ELSE { g1 }

\* stale-worker eviction of _timeout_task_loop
EvictStale(g) ==
    LET stale == { w \in SeqToSet(g.order) : cNow - g.seen[w] > STALE_WORKER_S } IN
    [g EXCEPT !.order = SelectSeq(@, LAMBDA w : w \notin stale),
              !.seen = [w \in Workers |-> IF w \in stale THEN 0 ELSE @[w]],
              !.metrics = [w \in Workers |-> IF w \in stale THEN NoMetrics ELSE @[w]],
              !.quotas = [w \in Workers |-> IF w \in stale THEN NoQuota ELSE @[w]],
              !.jitter = [w \in DOMAIN @ \ stale |-> @[w]]]

\* ---- coordinator steps ----

\* POST /api/worker/sync: heartbeat, metrics report if the body carries one
\* (m # NoMetrics), quota refresh
WorkerSync(w, m) ==
    /\ ~coordHung
    /\ \E g0 \in { RegisterWorker(CoordState, w) } :
       \E jit \in (IF m # NoMetrics /\ TriggersBlock(g0, m)
                   THEN JitterTables(g0) ELSE { g0.jitter }) :
       \E g1 \in (IF m # NoMetrics THEN HandleWorkerMetrics(g0, w, m, jit) ELSE { g0 }) :
       \E g2 \in (IF g1.hung THEN { g1 } ELSE AllocateQuotas(g1)) :
          SetCoord(g2)
    /\ lastAct' = IF m # NoMetrics THEN "report" ELSE "other"
    /\ lastReport' = IF m # NoMetrics
                     THEN [ high |-> m.block_rate > BLOCK_RATE_THRESHOLD,
                            cooling |-> cNow < globalBlockUntil,
                            by |-> w ]
                     ELSE NoReport
    /\ UNCHANGED << cNow, gMaxConc, gMaxQps, gMinConc >>

    /\ UNCHANGED notCoord
\* pull / result endpoints: heartbeat only
WorkerHeartbeat(w) ==
    /\ ~coordHung
    /\ \E g1 \in { RegisterWorker(CoordState, w) } : SetCoord(g1)
    /\ lastAct' = "other"
    /\ lastReport' = NoReport
    /\ UNCHANGED << cNow, gMaxConc, gMaxQps, gMinConc >>

    /\ UNCHANGED notCoord
\* one iteration of _timeout_task_loop: evict stale workers, reallocate
TimeoutLoopPass ==
    /\ ~coordHung
    /\ \E g1 \in AllocateQuotas(EvictStale(CoordState)) : SetCoord(g1)
    /\ lastAct' = "sweep"
    /\ lastReport' = NoReport
    /\ UNCHANGED << cNow, gMaxConc, gMaxQps, gMinConc >>

    /\ UNCHANGED notCoord
\* 30 seconds pass
CTick ==
    /\ cNow + TickStep <= CoordMaxClock
    /\ cNow' = cNow + TickStep
    /\ lastAct' = "other"
    /\ lastReport' = NoReport
    /\ UNCHANGED << regOrder, lastSeen, workerMetrics, workerQuotas, globalBlockUntil,
                    blockCount, recoveryEpoch, recoveryJitter, blockTriggeredBy,
                    gMaxConc, gMaxQps, gMinConc, coordHung >>

    /\ UNCHANGED notCoord
\* ---- the coordinator after module import ----
CoordIdle ==
    /\ regOrder = << >>
    /\ lastSeen = [w \in Workers |-> 0]
    /\ workerMetrics = [w \in Workers |-> NoMetrics]
    /\ workerQuotas = [w \in Workers |-> NoQuota]
    /\ globalBlockUntil = 0
    /\ blockCount = 0
    /\ recoveryEpoch = 0
    /\ recoveryJitter = << >>
    /\ blockTriggeredBy = "none"
    /\ cNow = 0
    /\ gMaxConc = GLOBAL_MAX_CONCURRENCY
    /\ gMaxQps = GLOBAL_MAX_QPS
    /\ gMinConc = MIN_CONCURRENCY
    /\ coordHung = FALSE
    /\ lastAct = "init"
    /\ lastReport = NoReport


\* ========================================================================
\* WORKER SIDE, continued
\* ========================================================================

\* ---- asyncio.Semaphore held in AdaptiveController._semaphore ----

\* Semaphore.release() applied n times to the current semaphore object:
\* every release increments _value and hands the permit to the first waiter.
RECURSIVE SemRelease(_, _)
SemRelease(st, n) ==
    IF n = 0 THEN st
    ELSE IF st.waiters # << >>
         THEN SemRelease([st EXCEPT !.waiters = Tail(st.waiters),
                                     !.pc[Head(st.waiters)] = "holding"], n - 1)
         ELSE SemRelease([st EXCEPT !.value = st.value + 1], n - 1)

SemState == [ value |-> semValue, waiters |-> semWaiters, pc |-> loopPc,
              old |-> loopOld, shrinks |-> shrinks ]

\* AdaptiveController._resize_semaphore(old_value, new_value)
\*   grow:   release (new - old) permits on the current semaphore
\*   shrink: replace _semaphore by a fresh Semaphore(max(new, 1)); loops that
\*           wait on the replaced object stay on it, loops that hold one of
\*           its permits keep it.
ResizeSemaphore(st, old_value, new_value) ==
    IF new_value > old_value
    THEN SemRelease(st, new_value - old_value)
    ELSE IF new_value < old_value
    THEN [ value   |-> Max(new_value, 1),
           waiters |-> << >>,
           pc      |-> [l \in Loops |-> IF st.pc[l] = "waiting" THEN "orphan" ELSE st.pc[l]],
           old     |-> [l \in Loops |-> st.pc[l] \in {"waiting", "orphan", "holding"}],
           shrinks |-> IF \E l \in Loops : st.pc[l] \in {"waiting", "holding"}
                       THEN st.shrinks + 1 ELSE st.shrinks ]
    ELSE st

SetSem(st) ==
    /\ semValue' = st.value
    /\ semWaiters' = st.waiters
    /\ loopPc' = st.pc
    /\ loopOld' = st.old
    /\ shrinks' = st.shrinks


\* ---- processing loops (Worker._worker_loop) ----

\* await self._controller.acquire(): Semaphore.acquire() on the object that
\* _semaphore names at the call; immediate when not locked(), else the loop
\* queues on that object.
LoopAcquire(l) ==
    /\ loopPc[l] = "idle"
    /\ IF semValue > 0 /\ semWaiters = << >>
       THEN /\ semValue' = semValue - 1
            /\ loopPc' = [loopPc EXCEPT ![l] = "holding"]
            /\ UNCHANGED semWaiters
       ELSE /\ semWaiters' = Append(semWaiters, l)
            /\ loopPc' = [loopPc EXCEPT ![l] = "waiting"]
            /\ UNCHANGED semValue
    /\ loopOld' = [loopOld EXCEPT ![l] = FALSE]
    /\ UNCHANGED << concurrency, ctlMin, ctlMax, cooldownUntil, cooldownDuration,
                    decreaseFactor, ctlJitter, wClock, blockEpoch, settingsVersion,
                    shrinks, reacted, lastQuota, lastSync >>

    /\ UNCHANGED notCtl
\* finally: self._controller.release(): self._semaphore.release() on the
\* object that _semaphore names at the release.
LoopRelease(l) ==
    /\ loopPc[l] = "holding"
    /\ SetSem(SemRelease([SemState EXCEPT !.pc[l] = "idle", !.old[l] = FALSE], 1))
    /\ UNCHANGED << concurrency, ctlMin, ctlMax, cooldownUntil, cooldownDuration,
                    decreaseFactor, ctlJitter, wClock, blockEpoch, settingsVersion,
                    reacted, lastQuota, lastSync >>

    /\ UNCHANGED notCtl
\* Worker._worker_pool, one reconcile round: spawn loops up to the target,
\* never stop one.
Spawned == { l \in Loops : loopPc[l] # "off" }

PoolReconcile ==
    /\ concurrency > Cardinality(Spawned)
    /\ loopPc' = [l \in Loops |-> IF l > Cardinality(Spawned) /\ l <= concurrency
                                  THEN "idle" ELSE loopPc[l]]
    /\ UNCHANGED << concurrency, ctlMin, ctlMax, semValue, semWaiters, loopOld,
                    cooldownUntil, cooldownDuration, decreaseFactor, ctlJitter, wClock,
                    blockEpoch, settingsVersion, shrinks, reacted, lastQuota, lastSync >>

    /\ UNCHANGED notCtl
\* ---- evaluation tick (AdaptiveController._evaluate) ----

\* MetricsCollector.snapshot() as the evaluator reads it; rates in percent,
\* rand is the draw of random.random() in percent.
Snap(t, br, sr, p50, bw, rnd) ==
    [ total |-> t, block_rate |-> br, success_rate |-> sr, latency_p50 |-> p50,
      bandwidth_pct |-> bw, rand |-> rnd ]
Snapshots ==
    { Snap(MIN_SAMPLES - 1, 10, 80, 12, 0, 0),   \* too few samples
      Snap(MIN_SAMPLES, 10, 90, 5, 0, 0),        \* blocked
      Snap(MIN_SAMPLES, 0, 80, 5, 0, 0),         \* low success rate
      Snap(MIN_SAMPLES, 0, 100, 12, 0, 0),       \* slow
      Snap(MIN_SAMPLES, 0, 100, 5, 90, 0),       \* bandwidth saturated
      Snap(MIN_SAMPLES, 0, 100, 5, 0, 0),        \* healthy, low draw
      Snap(MIN_SAMPLES, 0, 100, 5, 0, 99),       \* healthy, high draw
      Snap(MIN_SAMPLES, 0, 90, 8, 0, 0),         \* neither good nor bad
      Snap(MIN_SAMPLES, 10, 80, 12, 90, 0),      \* blocked, failing, slow and saturated
      Snap(MIN_SAMPLES, 0, 80, 5, 90, 0),        \* low success rate and saturated
      Snap(MIN_SAMPLES, 5, 95, 5, 0, 0) }        \* healthy at both thresholds

\* int(self._concurrency * self._block_decrease_factor), clamped to _min
Decreased(c) == Max(ctlMin, (c * decreaseFactor) \div 100)

\* the decision table with the cooldown test moved up
DecideCooldownFirst(snap) ==
    LET in_cooldown == wClock < cooldownUntil IN
    IF snap.block_rate > BLOCK_RATE_THRESHOLD
    THEN << Decreased(concurrency), wClock + cooldownDuration >>
    ELSE IF in_cooldown
    THEN << concurrency, cooldownUntil >>
    ELSE IF snap.success_rate < MIN_SUCCESS_RATE \/ snap.latency_p50 > MAX_LATENCY_S
    THEN << Decreased(concurrency), cooldownUntil >>
    ELSE IF snap.bandwidth_pct > BANDWIDTH_SOFT_CAP
    THEN << concurrency, cooldownUntil >>
    ELSE IF snap.success_rate >= TARGET_SUCCESS_RATE /\ snap.latency_p50 < TARGET_LATENCY_S
    THEN IF 100 * snap.rand < 3000 + 70 * ctlJitter
         THEN << Min(ctlMax, concurrency + 1), cooldownUntil >>
         ELSE << concurrency, cooldownUntil >>
    ELSE << concurrency, cooldownUntil >>

\* the decision table: << new_c, new cooldown deadline >>
Decide(snap) ==
    LET in_cooldown == wClock < cooldownUntil IN
    IF snap.block_rate > BLOCK_RATE_THRESHOLD
    THEN << Decreased(concurrency), wClock + cooldownDuration >>
    ELSE IF snap.success_rate < MIN_SUCCESS_RATE \/ snap.latency_p50 > MAX_LATENCY_S
    THEN << Decreased(concurrency), cooldownUntil >>
    ELSE IF snap.bandwidth_pct > BANDWIDTH_SOFT_CAP
    THEN << concurrency, cooldownUntil >>
    ELSE IF in_cooldown
    THEN << concurrency, cooldownUntil >>
    ELSE IF snap.success_rate >= TARGET_SUCCESS_RATE /\ snap.latency_p50 < TARGET_LATENCY_S
    THEN IF 100 * snap.rand < 3000 + 70 * ctlJitter
         THEN << Min(ctlMax, concurrency + 1), cooldownUntil >>
         ELSE << concurrency, cooldownUntil >>
    ELSE << concurrency, cooldownUntil >>

Evaluate(snap) ==
    /\ snap.total >= MIN_SAMPLES
    /\ \E d \in { Decide(snap) } :
       \E st \in { IF d[1] # concurrency
                    THEN ResizeSemaphore(SemState, concurrency, d[1]) ELSE SemState } :
          /\ st.shrinks <= MaxShrinks
          /\ SetSem(st)
          /\ concurrency' = d[1]
          /\ cooldownUntil' = d[2]
    /\ UNCHANGED << ctlMin, ctlMax, cooldownDuration, decreaseFactor, ctlJitter, wClock,
                    blockEpoch, settingsVersion, reacted, lastQuota, lastSync >>

    /\ UNCHANGED notCtl
\* fewer than 5 samples: the tick returns before taking the lock
EvaluateSkip(snap) ==
    /\ snap.total < MIN_SAMPLES
    /\ UNCHANGED << concurrency, ctlMin, ctlMax, semValue, semWaiters, loopPc, loopOld,
                    cooldownUntil, cooldownDuration, decreaseFactor, ctlJitter, wClock,
                    blockEpoch, settingsVersion, shrinks, reacted, lastQuota, lastSync >>

    /\ UNCHANGED notCtl
\* ---- application of a sync response (Worker._settings_sync) ----

\* what the worker reads of the body of POST /api/worker/sync ("sync") or,
\* when that call fails, of GET /api/settings ("fallback": no _quota, no
\* _global_block, no _recovery_jitter).  Fields the worker does not read in a
\* given response are fixed: max_concurrency when _quota is present, the
\* settings when the version is 0 (never newer than the local one).  A block
\* that is not active has remaining_s = 0 and carries the coordinator's
\* recovery_epoch all the same.
Response(k, v, mn, mx, q, act, ep, rem, j) ==
    [ kind |-> k, version |-> v, min_concurrency |-> mn, max_concurrency |-> mx,
      cooldown_after_block |-> COOLDOWN_AFTER_BLOCK_S, quota |-> q, active |-> act,
      epoch |-> ep, remaining_s |-> rem, jitter |-> j ]

SettingsParts == { << 0, 1, MaxC >> } \cup
                 { << v, mn, mx >> : v \in 1..MaxVersion, mn \in 1..2, mx \in 2..MaxC }
BlockParts == { << FALSE, ep, 0 >> : ep \in 0..MaxEpoch } \cup
              { << TRUE, ep, COOLDOWN_AFTER_BLOCK_S >> : ep \in 1..MaxEpoch }

SyncResponses ==
    { Response("sync", sp[1], sp[2], MaxC, q, bp[1], bp[2], bp[3], 99) :
        sp \in { x \in SettingsParts : x[3] = MaxC }, q \in 1..MaxC, bp \in BlockParts }
FallbackResponses ==
    { Response("fallback", sp[1], sp[2], sp[3], 0, FALSE, 0, 0, 0) : sp \in SettingsParts }
Responses == SyncResponses \cup FallbackResponses

\* the settings block gated by `ver >= self._settings_version`
AppliedSettingsNotOlder(r) ==
    IF r.version >= settingsVersion
    THEN << r.min_concurrency,
            IF r.kind = "fallback" THEN r.max_concurrency ELSE ctlMax,
            r.cooldown_after_block,
            r.version >>
    ELSE << ctlMin, ctlMax, cooldownDuration, settingsVersion >>
\* the version-gated settings block: << _min, _max, _cooldown_duration, version >>
AppliedSettings(r) ==
    IF r.version > settingsVersion
    THEN << r.min_concurrency,
            IF r.kind = "fallback" THEN r.max_concurrency ELSE ctlMax,
            r.cooldown_after_block,
            r.version >>
    ELSE << ctlMin, ctlMax, cooldownDuration, settingsVersion >>

\* quota enforcement: << _max, _concurrency, semaphore >>
AppliedQuota(r, max0, c0, st0) ==
    IF r.kind = "sync" /\ r.quota # max0
    THEN IF c0 > r.quota
         THEN << r.quota, r.quota, ResizeSemaphore(st0, c0, r.quota) >>
         ELSE << r.quota, c0, st0 >>
    ELSE << max0, c0, st0 >>

\* the test that lets the worker react to a block descriptor
NewEpochNotOlder(r) == r.kind = "sync" /\ r.active /\ r.epoch >= blockEpoch
NewEpoch(r) == r.kind = "sync" /\ r.active /\ r.epoch > blockEpoch

\* global-block reaction: << epoch, _concurrency, semaphore, _cooldown_until >>
AppliedBlock(r, min1, c1, st1) ==
    IF NewEpoch(r)
    THEN LET new_c == Max(min1, c1 \div 2) IN
         IF new_c < c1
         THEN << r.epoch, new_c, ResizeSemaphore(st1, c1, new_c), wClock + r.remaining_s >>
         ELSE << r.epoch, c1, st1, cooldownUntil >>
    ELSE << blockEpoch, c1, st1, cooldownUntil >>

SyncApply(r) ==
    \E s \in { AppliedSettings(r) } :
    \E q \in { AppliedQuota(r, s[2], concurrency, SemState) } :
    \E b \in { AppliedBlock(r, s[1], q[2], q[3]) } :
    /\ b[3].shrinks <= MaxShrinks
    /\ ctlMin' = s[1]
    /\ ctlMax' = q[1]
    /\ cooldownDuration' = s[3]
    /\ settingsVersion' = s[4]
    /\ blockEpoch' = b[1]
    /\ concurrency' = b[2]
    /\ SetSem(b[3])
    /\ cooldownUntil' = b[4]
    /\ ctlJitter' = IF r.kind = "sync" THEN r.jitter ELSE ctlJitter
    /\ reacted' = IF NewEpoch(r)
                  THEN [reacted EXCEPT ![r.epoch] = Min(2, @ + 1)] ELSE reacted
    /\ lastQuota' = IF r.kind = "sync" THEN r.quota ELSE lastQuota
    /\ lastSync' = IF r.kind = "sync" /\ r.active /\ r.epoch = blockEpoch
                   THEN "same_epoch"
                   ELSE IF NewEpoch(r) THEN "new_epoch" ELSE "plain"
    /\ UNCHANGED << decreaseFactor, wClock >>

    /\ UNCHANGED notCtl
\* time passes in the worker process
WTick ==
    /\ wClock + TickStep <= MaxClock
    /\ wClock' = wClock + TickStep
    /\ UNCHANGED << concurrency, ctlMin, ctlMax, semValue, semWaiters, loopPc, loopOld,
                    cooldownUntil, cooldownDuration, decreaseFactor, ctlJitter,
                    blockEpoch, settingsVersion, shrinks, reacted, lastQuota, lastSync >>

    /\ UNCHANGED notCtl
\* ---- a worker syncing with a coordinator that takes settings writes ----
\* responses carrying every version the coordinator's counter can show, in
\* any order (a restarted coordinator counts from 0 again)
VersionResponses ==
    { Response(k, v, mn, MaxC, MaxC, FALSE, 0, 0, 99) :
        k \in {"sync", "fallback"}, v \in 0..MaxPutVersion, mn \in 1..2 }

\* ---- the worker after Worker.__init__ / _pull_initial_settings ----
\* C = clamp(initial, min, max), Semaphore(C); _worker_pool starts C loops.
InitCtl ==
    /\ ctlMin \in 1..2
    /\ ctlMax \in 2..MaxC
    /\ ctlMin <= ctlMax
    /\ concurrency \in ctlMin..ctlMax
    /\ semValue = concurrency
    /\ semWaiters = << >>
    /\ loopPc = [l \in Loops |-> IF l <= concurrency THEN "idle" ELSE "off"]
    /\ loopOld = [l \in Loops |-> FALSE]
    /\ cooldownUntil = 0
    /\ \E mode \in {"tps", "tunnel"} :
          /\ cooldownDuration = IF mode = "tunnel" THEN TUNNEL_COOLDOWN_S
                                ELSE COOLDOWN_AFTER_BLOCK_S
          /\ decreaseFactor = IF mode = "tunnel" THEN 75 ELSE 50
    /\ ctlJitter = 50
    /\ wClock = 0
    /\ blockEpoch = 0
    /\ settingsVersion = 0
    /\ shrinks = 0
    /\ reacted = [e \in 1..MaxEpoch |-> 0]
    /\ lastQuota = 0
    /\ lastSync = "none"

\* SpecCtl: the controller's target, bounds, cooldown and block epoch under
\* evaluation ticks, sync responses and time; the processing loops stay idle.
NextCtl ==
    \/ \E snap \in Snapshots : Evaluate(snap)
    \/ \E snap \in Snapshots : EvaluateSkip(snap)
    \/ \E r \in Responses : SyncApply(r)
    \/ WTick


\* SpecEpoch: as SpecCtl, for the block-epoch bookkeeping: the responses carry
\* the worker's own settings version, so the settings block is skipped.
EpochResponses == { r \in Responses : r.version = 0 }

NextEpoch ==
    \/ \E snap \in Snapshots : Evaluate(snap)
    \/ \E r \in EpochResponses : SyncApply(r)
    \/ WTick


\* SpecSem: the semaphore and the processing loops under every kind of
\* concurrency change (AIMD +1, multiplicative decrease, quota shrink,
\* global-block halving); settings version and clock stay fixed.
SemSnapshots == { snap \in Snapshots : snap.block_rate = 0 /\ snap.bandwidth_pct = 0
                                        /\ snap.total >= MIN_SAMPLES /\ snap.rand = 0 }
SemResponses == { r \in SyncResponses : r.version = 0 /\ r.epoch <= 1 }

NextSem ==
    \/ \E l \in Loops : LoopAcquire(l)
    \/ \E l \in Loops : LoopRelease(l)
    \/ PoolReconcile
    \/ \E snap \in SemSnapshots : Evaluate(snap)
    \/ \E r \in SemResponses : SyncApply(r)


\* ========================================================================
\* Coordinator specifications
\* ========================================================================

\* the worker-side variables while only the coordinator is observed
CtlIdle ==
    /\ ctlMin = 1
    /\ ctlMax = MaxC
    /\ concurrency = 1
    /\ semValue = 1
    /\ semWaiters = << >>
    /\ loopPc = [l \in Loops |-> IF l <= 1 THEN "idle" ELSE "off"]
    /\ loopOld = [l \in Loops |-> FALSE]
    /\ cooldownUntil = 0
    /\ cooldownDuration = COOLDOWN_AFTER_BLOCK_S
    /\ decreaseFactor = 50
    /\ ctlJitter = 50
    /\ wClock = 0
    /\ blockEpoch = 0
    /\ settingsVersion = 0
    /\ shrinks = 0
    /\ reacted = [e \in 1..MaxEpoch |-> 0]
    /\ lastQuota = 0
    /\ lastSync = "none"

\* SpecAlloc: one allocation pass (an iteration of _timeout_task_loop) from
\* every combination of registry, metrics, budget settings and block state
\* drawn below.  All three workers are registered, in the order w1, w2, w3;
\* w3 may be older than the eviction age.
AllocMetrics ==
    {NoMetrics}
    \cup { [ success_rate |-> m.success_rate, block_rate |-> m.block_rate,
             reported_at |-> AllocNow - TickStep ]
            : m \in { Report(100, 0), Report(10, 10) } }
    \cup { [ success_rate |-> 100, block_rate |-> 0,
             reported_at |-> AllocNow - METRICS_FRESH_S - TickStep ] }

InitAlloc ==
    /\ CtlIdle
    /\ cNow = AllocNow
    /\ regOrder = << "w1", "w2", "w3" >>
    /\ lastSeen \in [Workers -> {AllocNow, AllocNow - ACTIVE_WINDOW_S}]
                  \cup { [w \in Workers |-> IF w = "w3"
                                            THEN AllocNow - STALE_WORKER_S - TickStep
                                            ELSE f[w]]
                          : f \in [Workers -> {AllocNow, AllocNow - ACTIVE_WINDOW_S}] }
    /\ workerMetrics \in [Workers -> AllocMetrics]
    /\ workerQuotas = [w \in Workers |-> NoQuota]
    /\ gMaxConc \in {2, 3, 6}
    /\ gMaxQps \in {50, 450}
    /\ gMinConc \in {1, 2}
    /\ \E cooling \in BOOLEAN :
          IF cooling
          THEN /\ globalBlockUntil = AllocNow + TickStep
               /\ blockCount = 1
               /\ recoveryEpoch = 1
               /\ blockTriggeredBy = "w1"
               /\ recoveryJitter \in UNION { [D -> JitterDraws] : D \in SUBSET Workers }
          ELSE /\ globalBlockUntil = 0
               /\ blockCount = 0
               /\ recoveryEpoch = 0
               /\ blockTriggeredBy = "none"
               /\ recoveryJitter = << >>
    /\ coordHung = FALSE
    /\ lastAct = "init"
    /\ lastReport = NoReport

NextAlloc == TimeoutLoopPass


\* SpecCoord: the coordinator serving two workers under the default budget
CoordWorkers == {"w1", "w2"}
SyncBodies == { NoMetrics, Report(100, 0), Report(100, 5), Report(60, 10) }

NextCoord ==
    \/ \E w \in CoordWorkers, m \in SyncBodies : WorkerSync(w, m)
    \/ \E w \in CoordWorkers : WorkerHeartbeat(w)
    \/ TimeoutLoopPass
    \/ CTick


\* ========================================================================
\* TASK STORE: Database.pull_tasks on the shared aiosqlite connection
\* ========================================================================
\* All handlers share one connection.  Every awaited execute / commit is one
\* step of the connection thread; other coroutines run between the steps of
\* a call.  sqlite3 opens a transaction implicitly before a DML statement
\* when none is open; BEGIN inside a transaction and COMMIT / ROLLBACK
\* outside one raise OperationalError; commit() outside a transaction does
\* nothing.

Row(st, old) == [ status |-> st, timed_out |-> old ]

\* UPDATE ... SET status = 'pending' WHERE status = 'processing' AND updated_at < cutoff
ResetFreshRows(rows) ==
    [t \in Tasks |-> IF rows[t].status = "processing" /\ ~rows[t].timed_out
                     THEN Row("pending", FALSE) ELSE rows[t]]
ResetTimeoutRows(rows) ==
    [t \in Tasks |-> IF rows[t].status = "processing" /\ rows[t].timed_out
                     THEN Row("pending", FALSE) ELSE rows[t]]

\* SELECT id ... WHERE status = 'pending' ORDER BY priority DESC, id ASC LIMIT n
\* (all rows have the default priority)
SelectPending(rows, n) ==
    LET pend == { t \in Tasks : rows[t].status = "pending" } IN
    { t \in pend : Cardinality({ u \in pend : u < t }) < n }

\* UPDATE ... SET status = 'processing', updated_at = now WHERE id IN (ids)
MarkProcessing(rows, ids) ==
    [t \in Tasks |-> IF t \in ids THEN Row("processing", FALSE) ELSE rows[t]]

\* history bookkeeping: a row that becomes pending starts afresh
Pended(rows, h) ==
    [t \in Tasks |-> IF rows[t].status = "pending" THEN 0 ELSE h[t]]

\* a handler calls Database.pull_tasks(worker_id, n)
PullStart(p, n) ==
    /\ pullPc[p] = "idle"
    /\ pullPc' = [pullPc EXCEPT ![p] = "reset"]
    /\ pullLimit' = [pullLimit EXCEPT ![p] = n]
    /\ pullIds' = [pullIds EXCEPT ![p] = {}]
    /\ UNCHANGED << taskRows, dbCommitted, inTxn, sweepPc, handedOut >>
    /\ UNCHANGED notDb

\* reset_timeout_tasks, the UPDATE
PullReset(p) ==
    /\ pullPc[p] = "reset"
    /\ taskRows' = ResetTimeoutRows(taskRows)
    /\ inTxn' = TRUE
    /\ handedOut' = Pended(taskRows', handedOut)
    /\ pullPc' = [pullPc EXCEPT ![p] = "reset_commit"]
    /\ UNCHANGED << dbCommitted, pullLimit, pullIds, sweepPc >>
    /\ UNCHANGED notDb

\* reset_timeout_tasks, self._db.commit()
PullResetCommit(p) ==
    /\ pullPc[p] = "reset_commit"
    /\ dbCommitted' = IF inTxn THEN taskRows ELSE dbCommitted
    /\ inTxn' = FALSE
    /\ pullPc' = [pullPc EXCEPT ![p] = "begin"]
    /\ UNCHANGED << taskRows, pullLimit, pullIds, sweepPc, handedOut >>
    /\ UNCHANGED notDb

\* execute("BEGIN IMMEDIATE"): outside the try block, an error ends the call
PullBegin(p) ==
    /\ pullPc[p] = "begin"
    /\ inTxn' = TRUE
    /\ pullPc' = [pullPc EXCEPT ![p] = IF inTxn THEN "idle" ELSE "select"]
    /\ UNCHANGED << taskRows, dbCommitted, pullLimit, pullIds, sweepPc, handedOut >>
    /\ UNCHANGED notDb

\* the SELECT and fetchall
PullSelect(p) ==
    /\ pullPc[p] = "select"
    /\ pullIds' = [pullIds EXCEPT ![p] = SelectPending(taskRows, pullLimit[p])]
    /\ pullPc' = [pullPc EXCEPT ![p] = IF pullIds'[p] = {} THEN "commit" ELSE "update"]
    /\ UNCHANGED << taskRows, dbCommitted, inTxn, pullLimit, sweepPc, handedOut >>
    /\ UNCHANGED notDb

\* the UPDATE of the fetched ids
PullUpdate(p) ==
    /\ pullPc[p] = "update"
    /\ taskRows' = MarkProcessing(taskRows, pullIds[p])
    /\ inTxn' = TRUE
    /\ pullPc' = [pullPc EXCEPT ![p] = "commit"]
    /\ UNCHANGED << dbCommitted, pullLimit, pullIds, sweepPc, handedOut >>
    /\ UNCHANGED notDb

\* execute("COMMIT"), then return tasks; on error go to the except branch
PullCommit(p) ==
    /\ pullPc[p] = "commit"
    /\ IF inTxn
       THEN /\ dbCommitted' = taskRows
            /\ inTxn' = FALSE
            /\ handedOut' = [t \in Tasks |-> IF t \in pullIds[p]
                                              THEN Min(2, handedOut[t] + 1)
                                              ELSE handedOut[t]]
            /\ pullPc' = [pullPc EXCEPT ![p] = "idle"]
       ELSE /\ pullPc' = [pullPc EXCEPT ![p] = "rollback"]
            /\ UNCHANGED << dbCommitted, inTxn, handedOut >>
    /\ UNCHANGED << taskRows, pullLimit, pullIds, sweepPc >>
    /\ UNCHANGED notDb

\* except: execute("ROLLBACK"), then the call raises
PullRollback(p) ==
    /\ pullPc[p] = "rollback"
    /\ taskRows' = IF inTxn THEN dbCommitted ELSE taskRows
    /\ inTxn' = FALSE
    /\ handedOut' = [t \in Tasks |->
                        IF taskRows'[t].status = "pending" /\ taskRows[t].status # "pending"
                        THEN 0 ELSE handedOut[t]]
    /\ pullPc' = [pullPc EXCEPT ![p] = "idle"]
    /\ UNCHANGED << dbCommitted, pullLimit, pullIds, sweepPc >>
    /\ UNCHANGED notDb

\* _timeout_task_loop calls reset_timeout_tasks: the UPDATE
SweepReset ==
    /\ sweepPc = "idle"
    /\ taskRows' = ResetTimeoutRows(taskRows)
    /\ inTxn' = TRUE
    /\ handedOut' = Pended(taskRows', handedOut)
    /\ sweepPc' = "commit"
    /\ UNCHANGED << dbCommitted, pullPc, pullLimit, pullIds >>
    /\ UNCHANGED notDb

\* ... and its commit()
SweepCommit ==
    /\ sweepPc = "commit"
    /\ dbCommitted' = IF inTxn THEN taskRows ELSE dbCommitted
    /\ inTxn' = FALSE
    /\ sweepPc' = "idle"
    /\ UNCHANGED << taskRows, pullLimit, pullIds, pullPc, handedOut >>
    /\ UNCHANGED notDb

\* TASK_TIMEOUT_MINUTES pass since a processing row was last updated
TaskTimesOut(t) ==
    /\ taskRows[t].status = "processing" /\ ~taskRows[t].timed_out
    /\ dbCommitted[t].status = "processing"
    /\ taskRows' = [taskRows EXCEPT ![t].timed_out = TRUE]
    /\ dbCommitted' = [dbCommitted EXCEPT ![t].timed_out = TRUE]
    /\ UNCHANGED << inTxn, pullPc, pullLimit, pullIds, sweepPc, handedOut >>
    /\ UNCHANGED notDb

\* the store after create_tasks: every row pending, nothing in flight
DbIdle ==
    /\ taskRows = [t \in Tasks |-> Row("pending", FALSE)]
    /\ dbCommitted = [t \in Tasks |-> Row("pending", FALSE)]
    /\ inTxn = FALSE
    /\ pullPc = [p \in Pullers |-> "idle"]
    /\ pullLimit = [p \in Pullers |-> 1]
    /\ pullIds = [p \in Pullers |-> {}]
    /\ sweepPc = "idle"
    /\ handedOut = [t \in Tasks |-> 0]

\* SpecDb: two handlers pulling concurrently, the timeout sweep, and time
NextDb ==
    \/ \E p \in Pullers, n \in 1..NumTasks : PullStart(p, n)
    \/ \E p \in Pullers : PullReset(p)
    \/ \E p \in Pullers : PullResetCommit(p)
    \/ \E p \in Pullers : PullBegin(p)
    \/ \E p \in Pullers : PullSelect(p)
    \/ \E p \in Pullers : PullUpdate(p)
    \/ \E p \in Pullers : PullCommit(p)
    \/ \E p \in Pullers : PullRollback(p)
    \/ SweepReset
    \/ SweepCommit
    \/ \E t \in Tasks : TaskTimesOut(t)

\* ========================================================================
\* SETTINGS (server.py): PUT /api/settings
\* ========================================================================

\* ---- program constants (config.py, server.py) ----
MAX_RETRIES         == 3
INITIAL_CONCURRENCY == 8
MAX_CONCURRENCY     == 50

\* keys of _runtime_settings the model follows, in the dict's iteration order
SettingKeys == << "max_retries", "initial_concurrency", "min_concurrency",
                  "max_concurrency", "target_latency", "max_latency" >>

\* _validators: (type, min, max)
Validators ==
    [ max_retries         |-> [type |-> "int",   lo |-> 1, hi |-> 10],
      initial_concurrency |-> [type |-> "int",   lo |-> 1, hi |-> 50],
      min_concurrency     |-> [type |-> "int",   lo |-> 1, hi |-> 20],
      max_concurrency     |-> [type |-> "int",   lo |-> 2, hi |-> 100],
      target_latency      |-> [type |-> "float", lo |-> 1, hi |-> 30],
      max_latency         |-> [type |-> "float", lo |-> 2, hi |-> 60] ]

DefaultSettings ==
    [ max_retries         |-> MAX_RETRIES,
      initial_concurrency |-> INITIAL_CONCURRENCY,
      min_concurrency     |-> MIN_CONCURRENCY,
      max_concurrency     |-> MAX_CONCURRENCY,
      target_latency      |-> TARGET_LATENCY_S,
      max_latency         |-> MAX_LATENCY_S ]

\* ---- JSON values of a request body, as json.loads delivers them ----
Num(n)    == [kind |-> "num",  v |-> n]   \* a number that fits: 5, 5.0
BadString == [kind |-> "str",  v |-> 0]   \* "abc"
Null      == [kind |-> "null", v |-> 0]   \* null -> None
Inf       == [kind |-> "inf",  v |-> 0]   \* 1e999 or Infinity -> float('inf')
Huge      == [kind |-> "huge", v |-> 0]   \* an integer literal beyond the float range

\* int(val) / float(val).  "value": converted to v; "beyond": converted to a
\* number above every range; "error": ValueError or TypeError;
\* "overflow": OverflowError.
Convert(type, val) ==
    CASE val.kind = "num"  -> [res |-> "value", v |-> val.v]
      [] val.kind = "str"  -> [res |-> "error", v |-> 0]
      [] val.kind = "null" -> [res |-> "error", v |-> 0]
      [] val.kind = "inf"  -> IF type = "int" THEN [res |-> "overflow", v |-> 0]
                              ELSE [res |-> "beyond", v |-> 0]
      [] val.kind = "huge" -> IF type = "int" THEN [res |-> "beyond", v |-> 0]
                              ELSE [res |-> "overflow", v |-> 0]

\* the loop `for key in _runtime_settings`, from the i-th key on: st is
\* _runtime_settings, old is old_values, errs is `errors` being non-empty;
\* raised: an exception left the loop
RECURSIVE ApplyFields(_, _, _, _, _)
ApplyFields(data, i, st, old, errs) ==
    IF i > Len(SettingKeys)
    THEN [st |-> st, old |-> old, errs |-> errs, raised |-> FALSE]
    ELSE LET key == SettingKeys[i]
             c   == Convert(Validators[key].type, data[key])
         IN IF key \notin DOMAIN data \/ data[key] = Num(st[key])
            THEN ApplyFields(data, i + 1, st, old, errs)
            ELSE CASE c.res = "overflow" ->
                        [st |-> st, old |-> old, errs |-> errs, raised |-> TRUE]
                   [] c.res = "error" ->
                        ApplyFields(data, i + 1, st, old, TRUE)
                   [] c.res = "beyond" ->
                        ApplyFields(data, i + 1, st, old, TRUE)
                   [] OTHER ->
                        IF c.v < Validators[key].lo \/ c.v > Validators[key].hi
                        THEN ApplyFields(data, i + 1, st, old, TRUE)
                        ELSE ApplyFields(data, i + 1, [st EXCEPT ![key] = c.v],
                                         (key :> st[key]) @@ old, errs)

\* cross_errors being non-empty, for the keys of SettingKeys (the fifth
\* constraint reads the two success-rate keys)
CrossErrors(s) ==
    \/ s.min_concurrency > s.max_concurrency
    \/ s.initial_concurrency > s.max_concurrency
    \/ s.initial_concurrency < s.min_concurrency
    \/ s.target_latency >= s.max_latency

\* for k, v in old_values.items(): _runtime_settings[k] = v
RollBack(st, old) ==
    [k \in DOMAIN st |-> IF k \in DOMAIN old THEN old[k] ELSE st[k]]

\* update_settings: the module globals after the handler, and how it ended:
\* "ok" (200), "rejected" (422), "crashed" (exception, 500)
UpdateSettings(data) ==
    LET r == ApplyFields(data, 1, srvSettings, << >>, FALSE)
    IN  IF r.raised
        THEN [settings |-> r.st, version |-> srvVersion, outcome |-> "crashed"]
        ELSE IF r.errs \/ CrossErrors(r.st)
        THEN [settings |-> RollBack(r.st, r.old), version |-> srvVersion,
              outcome |-> "rejected"]
        ELSE [settings |-> r.st,
              version |-> IF DOMAIN r.old # {} THEN srvVersion + 1 ELSE srvVersion,
              outcome |-> "ok"]

\* ---- request bodies explored ----
\* a second value inside each key's range; some pairs break a cross constraint
OtherSettings ==
    [ max_retries |-> 5, initial_concurrency |-> 3, min_concurrency |-> 5,
      max_concurrency |-> 4, target_latency |-> 12, max_latency |-> 20 ]

FieldValues(key) ==
    { Num(DefaultSettings[key]), Num(OtherSettings[key]), Num(0),
      BadString, Null, Inf, Huge }

Requests ==
    UNION { { d \in [D -> UNION { FieldValues(k) : k \in D }] :
                \A k \in D : d[k] \in FieldValues(k) } :
            D \in { S \in SUBSET DOMAIN DefaultSettings : Cardinality(S) <= MaxFields } }

\* ---- PUT /api/settings ----
\* the handler has one await, request.json(), before it touches the globals
PutSettings(data) ==
    /\ srvVersion < MaxPutVersion
    /\ \E r \in { UpdateSettings(data) } :
          /\ srvSettings' = r.settings
          /\ srvVersion' = r.version
          /\ putOutcome' = r.outcome
    /\ UNCHANGED notPut

PutIdle ==
    /\ srvSettings = DefaultSettings
    /\ srvVersion = 0
    /\ putOutcome = "none"

NextPut == \E data \in Requests : PutSettings(data)

\* ========================================================================
\* TASK FEEDER (worker.py): Worker._task_feeder, its queue and its consumers
\* ========================================================================

\* ---- program constants (worker.py, server.py) ----
MIN_FETCH == 5     \* fetch_count = max(fetch_count, 5)
PULL_CAP  == 50    \* the server answers at most min(count, 50) tasks

\* int(self._queue_size * self._prefetch_threshold), threshold 0.5
PrefetchThreshold == TaskQueueSize \div 2

FetchCount(c, qsize) == Max(Min(c * 2, TaskQueueSize - qsize), MIN_FETCH)

\* lengths of the list _pull_tasks can return: up to max(1, min(count, 50))
\* tasks, none when the server has none or the request failed
ReplySizes(count) == 0 .. Max(1, Min(count, PULL_CAP))

Repeat(x, n) == [i \in 1..n |-> x]

\* has_priority and not self._task_queue.empty()
DrainsNever(prio, q) == FALSE
DrainsQueue(prio, q) == prio /\ q # << >>

\* top of `while self._running`, reached without yielding: either leave, or
\* start a pull (await _pull_tasks), or sleep
FeederLoopTop(q, run) ==
    IF ~run
    THEN feederPc' = "exited" /\ fetchCount' = 0
    ELSE IF Len(q) < PrefetchThreshold
    THEN feederPc' = "pulling" /\ fetchCount' = FetchCount(concurrency, Len(q))
    ELSE feederPc' = "sleeping" /\ fetchCount' = 0

\* for task in tasks: await self._task_queue.put(task) -- put() suspends only
\* while the queue is full; left is the number of tasks still to put
PutTasks(q, left, tag, run) ==
    LET k == Min(left, TaskQueueSize - Len(q))
        q1 == q \o Repeat(tag, k)
    IN  /\ taskQueue' = q1
        /\ pendingPuts' = left - k
        /\ justEnqueued' = (left = k)
        /\ IF left = k THEN FeederLoopTop(q1, run)
           ELSE feederPc' = "putting" /\ fetchCount' = 0

\* the coroutine starts (asyncio.gather in Worker.start)
FeederStart ==
    /\ feederPc = "start"
    /\ FeederLoopTop(taskQueue, running)
    /\ justEnqueued' = FALSE
    /\ UNCHANGED << taskQueue, respNo, pendingPuts, running, respPriority, priorLen >>
    /\ UNCHANGED notFeed

\* _pull_tasks returns n tasks; prio: one of them has priority > 0
FeederReceive(n, prio) ==
    /\ feederPc = "pulling"
    /\ n \in ReplySizes(fetchCount)
    /\ IF n = 0
       THEN /\ ~prio
            /\ feederPc' = "sleeping"
            /\ fetchCount' = 0
            /\ justEnqueued' = FALSE
            /\ UNCHANGED << taskQueue, respNo, pendingPuts, respPriority, priorLen >>
       ELSE /\ respNo < MaxPulls
            /\ respNo' = respNo + 1
            /\ respPriority' = prio
            /\ priorLen' = Len(taskQueue)
            /\ PutTasks(IF DrainsQueue(prio, taskQueue) THEN << >> ELSE taskQueue,
                        n, respNo + 1, running)
    /\ UNCHANGED running
    /\ UNCHANGED notFeed

\* a put that waited for room goes on
FeederPutResume ==
    /\ feederPc = "putting"
    /\ Len(taskQueue) < TaskQueueSize
    /\ PutTasks(taskQueue, pendingPuts, respNo, running)
    /\ UNCHANGED << respNo, running, respPriority, priorLen >>
    /\ UNCHANGED notFeed

\* asyncio.sleep returns
FeederWake ==
    /\ feederPc = "sleeping"
    /\ FeederLoopTop(taskQueue, running)
    /\ justEnqueued' = FALSE
    /\ UNCHANGED << taskQueue, respNo, pendingPuts, running, respPriority, priorLen >>
    /\ UNCHANGED notFeed

\* a processing loop's self._task_queue.get() returns
LoopDequeue ==
    /\ taskQueue # << >>
    /\ taskQueue' = Tail(taskQueue)
    /\ justEnqueued' = FALSE
    /\ UNCHANGED << feederPc, fetchCount, respNo, pendingPuts, running, respPriority,
                    priorLen >>
    /\ UNCHANGED notFeed

\* Worker.stop: _running = False, then put_nowait(None) up to _max times
WorkerStop ==
    /\ running
    /\ running' = FALSE
    /\ taskQueue' = taskQueue \o Repeat(0, Min(ctlMax, TaskQueueSize - Len(taskQueue)))
    /\ justEnqueued' = FALSE
    /\ UNCHANGED << feederPc, fetchCount, respNo, pendingPuts, respPriority, priorLen >>
    /\ UNCHANGED notFeed

FeedIdle ==
    /\ taskQueue = << >>
    /\ feederPc = "start"
    /\ fetchCount = 0
    /\ respNo = 0
    /\ pendingPuts = 0
    /\ running = TRUE
    /\ respPriority = FALSE
    /\ priorLen = 0
    /\ justEnqueued = FALSE

NextFeed ==
    \/ FeederStart
    \/ \E n \in 0..TaskQueueSize, prio \in BOOLEAN : FeederReceive(n, prio)
    \/ FeederPutResume
    \/ FeederWake
    \/ LoopDequeue
    \/ WorkerStop

\* ========================================================================
\* TASK PROCESSING (worker.py): Worker._process_task
\* ========================================================================

\* the bound of `while attempt < max_retries`
RetryLimitLive == wMaxRetries
RetryLimit == ptMaxRetries

\* a processing loop calls _process_task(task)
ProcessStart(mode, fast) ==
    /\ ptPc \in {"idle", "returned"}
    /\ ptPc' = "loop"
    /\ ptMode' = mode
    /\ ptFast' = fast
    /\ ptAttempt' = 0
    /\ ptMaxRetries' = wMaxRetries
    /\ ptReturn' = "none"
    /\ ptErrorType' = "network"
    /\ ptLastPut' = "none"
    /\ ptResults' = 0
    /\ ptIters' = 0
    /\ ptNeverReady' = TRUE
    /\ UNCHANGED wMaxRetries
    /\ UNCHANGED notProc

InLoop == ptPc = "loop" /\ ptAttempt < RetryLimit

\* an iteration that ends in `attempt += 1; continue`; err: the value it
\* leaves in last_error_type
Retry(ready, err) ==
    /\ ptAttempt' = ptAttempt + 1
    /\ ptErrorType' = err
    /\ ptIters' = ptIters + 1
    /\ ptNeverReady' = (ptNeverReady /\ ~ready)
    /\ UNCHANGED << wMaxRetries, ptPc, ptMode, ptFast, ptMaxRetries, ptReturn, ptLastPut,
                    ptResults >>

\* an iteration that ends in `return`: put is what it handed to
\* _submit_result before ("none": nothing)
Return(ret, put, bump, err) ==
    /\ ptPc' = "returned"
    /\ ptReturn' = ret
    /\ ptErrorType' = err
    /\ ptLastPut' = IF put = "none" THEN ptLastPut ELSE put
    /\ ptResults' = IF put = "none" THEN ptResults ELSE ptResults + 1
    /\ ptAttempt' = ptAttempt + bump
    /\ ptIters' = ptIters + 1
    /\ ptNeverReady' = FALSE
    /\ UNCHANGED << wMaxRetries, ptMode, ptFast, ptMaxRetries >>

\* no channel / channel session not ready (tunnel); wait on _session_ready
\* timed out / global session missing or not ready (TPS)
PtSessionNotReady ==
    /\ InLoop
    /\ Retry(FALSE, ptErrorType)
    /\ UNCHANGED notProc

\* fast mode, first attempt: _try_aod_fast returned a result
PtAodHit ==
    /\ InLoop
    /\ ptFast /\ ptAttempt = 0
    /\ Return("success", "aod", 0, ptErrorType)
    /\ UNCHANGED notProc

\* fetch_product_page returned None, or the iteration raised an Exception
PtFetchFails ==
    /\ InLoop
    /\ \E err \in {ptErrorType, "timeout", "network"} : Retry(TRUE, err)
    /\ UNCHANGED notProc

\* session.is_blocked(resp): tunnel marks the channel and goes on, TPS
\* rotates the session and returns (False, True, resp_bytes)
PtBlocked ==
    /\ InLoop
    /\ IF ptMode = "tunnel" THEN Retry(TRUE, "blocked")
       ELSE Return("blocked", "none", 1, "blocked")
    /\ UNCHANGED notProc

\* session.is_404(resp)
PtNotFound ==
    /\ InLoop
    /\ Return("success", "not_found", 0, ptErrorType)
    /\ UNCHANGED notProc

\* captcha page, API block page, empty page, parse failure, empty title,
\* non-US price
PtPageRejected ==
    /\ InLoop
    /\ \E err \in {"captcha", "blocked", "parse_error"} : Retry(TRUE, err)
    /\ UNCHANGED notProc

\* the page parsed
PtSuccess ==
    /\ InLoop
    /\ Return("success", "page", 0, ptErrorType)
    /\ UNCHANGED notProc

\* the loop condition fails: submit the failure and return
PtExhausted ==
    /\ ptPc = "loop"
    /\ ~(ptAttempt < RetryLimit)
    /\ ptPc' = "returned"
    /\ ptReturn' = "failed"
    /\ ptLastPut' = "failure"
    /\ ptResults' = ptResults + 1
    /\ UNCHANGED << wMaxRetries, ptMode, ptFast, ptAttempt, ptMaxRetries, ptErrorType,
                    ptIters, ptNeverReady >>
    /\ UNCHANGED notProc

\* _settings_sync stores a new max_retries
SyncMaxRetries(v) ==
    /\ v # wMaxRetries
    /\ wMaxRetries' = v
    /\ UNCHANGED << ptPc, ptMode, ptFast, ptAttempt, ptMaxRetries, ptReturn, ptErrorType,
                    ptLastPut, ptResults, ptIters, ptNeverReady >>
    /\ UNCHANGED notProc

ProcIdle ==
    /\ wMaxRetries = MAX_RETRIES
    /\ ptPc = "idle"
    /\ ptMode = "tps"
    /\ ptFast = FALSE
    /\ ptAttempt = 0
    /\ ptMaxRetries = MAX_RETRIES
    /\ ptReturn = "none"
    /\ ptErrorType = "network"
    /\ ptLastPut = "none"
    /\ ptResults = 0
    /\ ptIters = 0
    /\ ptNeverReady = FALSE

NextProc ==
    \/ \E mode \in {"tps", "tunnel"}, fast \in BOOLEAN : ProcessStart(mode, fast)
    \/ PtSessionNotReady
    \/ PtAodHit
    \/ PtFetchFails
    \/ PtBlocked
    \/ PtNotFound
    \/ PtPageRejected
    \/ PtSuccess
    \/ PtExhausted
    \/ \E v \in 1..MaxTries : SyncMaxRetries(v)

\* ========================================================================
\* RATE LIMITER (adaptive.py): TokenBucket
\* ========================================================================

\* ---- program constants (config.py) ----
TOKEN_BUCKET_RATE == 9   \* 4.5 per second

\* n seconds in ticks, n tokens in quarter tokens
Seconds(n) == n * 2
Quarters(n) == n * 4

BucketRates == {1, 3, TOKEN_BUCKET_RATE}

\* max(1, int(self._rate))
BurstOf(rate) == Max(1, rate \div 2)

\* wait = (1.0 - self._tokens) / self._rate, in whole ticks (rounded up:
\* asyncio.sleep never returns early)
WaitTicks(tokens, rate) == (Quarters(1) - tokens + rate - 1) \div rate

\* _refill: min(self._burst, self._tokens + elapsed * self._rate)
RefillUncapped(tokens, elapsed, rate, burst) == tokens + elapsed * rate
Refill(tokens, elapsed, rate, burst) ==
    Min(Quarters(burst), tokens + elapsed * rate)

\* one pass of the loop in acquire(): under the lock, refill, then take a
\* token and return, or compute the wait and go to sleep
BucketTry(c, waited) ==
    LET tokens == Refill(tbTokens, tbNow - tbLastRefill, tbRate, tbBurst)
    IN  /\ tbLastRefill' = tbNow
        /\ IF tokens >= Quarters(1)
           THEN /\ tbTokens' = tokens - Quarters(1)
                /\ tbPc' = [tbPc EXCEPT ![c] = "idle"]
                /\ tbWake' = [tbWake EXCEPT ![c] = 0]
                /\ tbWaited' = [tbWaited EXCEPT ![c] = waited]
                /\ tbReturns' = [tbReturns EXCEPT ![tbNow] = @ + 1]
           ELSE /\ tbTokens' = tokens
                /\ tbPc' = [tbPc EXCEPT ![c] = "sleeping"]
                /\ tbWake' = [tbWake EXCEPT ![c] = tbNow + WaitTicks(tokens, tbRate)]
                /\ tbWaited' = [tbWaited EXCEPT ![c] = TRUE]
                /\ UNCHANGED tbReturns
        /\ UNCHANGED << tbRate, tbBurst, tbNow >>

\* a coroutine calls acquire()
BucketAcquire(c) ==
    /\ tbPc[c] = "idle"
    /\ BucketTry(c, FALSE)
    /\ UNCHANGED notBucket

\* asyncio.sleep(wait) is over, the loop goes round
BucketRetry(c) ==
    /\ tbPc[c] = "sleeping"
    /\ tbNow >= tbWake[c]
    /\ BucketTry(c, TRUE)
    /\ UNCHANGED notBucket

\* time passes
BucketTick ==
    /\ tbNow < MaxBucketClock
    /\ tbNow' = tbNow + 1
    /\ UNCHANGED << tbRate, tbBurst, tbTokens, tbLastRefill, tbPc, tbWake, tbWaited,
                    tbReturns >>
    /\ UNCHANGED notBucket

\* TokenBucket.__init__ with the given rate
BucketWith(rate) ==
    /\ tbRate = rate
    /\ tbBurst = BurstOf(rate)
    /\ tbTokens = Quarters(BurstOf(rate))
    /\ tbLastRefill = 0
    /\ tbNow = 0
    /\ tbPc = [c \in BucketCallers |-> "idle"]
    /\ tbWake = [c \in BucketCallers |-> 0]
    /\ tbWaited = [c \in BucketCallers |-> FALSE]
    /\ tbReturns = [t \in 0..MaxBucketClock |-> 0]

BucketIdle == BucketWith(TOKEN_BUCKET_RATE)

InitBucket == \E rate \in BucketRates : BucketWith(rate)

NextBucket ==
    \/ \E c \in BucketCallers : BucketAcquire(c)
    \/ \E c \in BucketCallers : BucketRetry(c)
    \/ BucketTick

\* ========================================================================
\* METRICS WINDOW (metrics.py): MetricsCollector
\* ========================================================================

\* sorted(r.latency_s for r in records)
SortedLatencies(records) == SortSeq(records, LAMBDA a, b : a < b)

\* _percentile(sorted_data, pct), pct = num / den
Percentile(sorted, num, den) ==
    IF sorted = << >> THEN 0
    ELSE sorted[Min((Len(sorted) * num) \div den, Len(sorted) - 1) + 1]

\* record(): append, then prune (nothing is older than the window yet)
MetricsRecord(lat) ==
    /\ Len(mRecords) < MaxSamples
    /\ mRecords' = Append(mRecords, lat)
    /\ mFresh' = FALSE
    /\ UNCHANGED << mP50, mTotal >>
    /\ UNCHANGED notMetric

\* _prune(): the oldest record leaves the window
MetricsPrune ==
    /\ mRecords # << >>
    /\ mRecords' = Tail(mRecords)
    /\ mFresh' = FALSE
    /\ UNCHANGED << mP50, mTotal >>
    /\ UNCHANGED notMetric

\* snapshot()
MetricsSnapshot ==
    /\ mTotal' = Len(mRecords)
    /\ mP50' = Percentile(SortedLatencies(mRecords), 1, 2)
    /\ mFresh' = TRUE
    /\ UNCHANGED mRecords
    /\ UNCHANGED notMetric

MetricIdle ==
    /\ mRecords = << >>
    /\ mP50 = 0
    /\ mTotal = 0
    /\ mFresh = FALSE

NextMetric ==
    \/ \E lat \in 1..MaxLatency : MetricsRecord(lat)
    \/ MetricsPrune
    \/ MetricsSnapshot

\* ========================================================================
\* SESSION READINESS (worker.py): _init_session_tps and _rotate_session
\* ========================================================================

\* attempts of one initialisation loop: for attempt in range(3)
INIT_ATTEMPTS == 3

\* the event after all attempts failed: the trailing self._session_ready.set()
ReadyAfterFailureUnset == FALSE
ReadyAfterFailure == TRUE

\* Event.set(): the waiters' futures are resolved at once
WakeWaiters(pc) == IF pc = "waiting" THEN "woken" ELSE pc

\* one pass of `for attempt in range(3)`: a new AmazonSession, initialize()
\* returned `success`; ends the loop on success and after the last failure
AttemptOutcome(success) ==
    IF success
    THEN /\ srSession' = "ok"
         /\ srReady' = TRUE
         /\ srTaskPc' = WakeWaiters(srTaskPc)
         /\ srAttempt' = 0
    ELSE /\ srSession' = "none"
         /\ IF srAttempt + 1 < INIT_ATTEMPTS
            THEN srAttempt' = srAttempt + 1 /\ UNCHANGED << srReady, srTaskPc >>
            ELSE /\ srAttempt' = 0
                 /\ srReady' = ReadyAfterFailure
                 /\ srTaskPc' = IF ReadyAfterFailure THEN WakeWaiters(srTaskPc)
                                ELSE srTaskPc

LoopEnds(success) == success \/ ~(srAttempt + 1 < INIT_ATTEMPTS)

\* _init_session_tps up to the first await: clear the event, build a session
InitSessionStart ==
    /\ srInitPc = "start"
    /\ srReady' = FALSE
    /\ srSession' = "new"
    /\ srInitPc' = "attempt"
    /\ srAttempt' = 0
    /\ srLast' = "cleared"
    /\ UNCHANGED << srRotPc, srLock, srRecent, srTaskPc >>
    /\ UNCHANGED notSess

\* initialize() returns
InitSessionAttempt(success) ==
    /\ srInitPc = "attempt"
    /\ AttemptOutcome(success)
    /\ srInitPc' = IF LoopEnds(success) THEN "done" ELSE "attempt"
    /\ srLast' = IF ~LoopEnds(success) THEN "retrying"
                 ELSE IF success THEN "init_ok" ELSE "init_failed"
    /\ UNCHANGED << srRotPc, srLock, srRecent >>
    /\ UNCHANGED notSess

\* a processing loop calls _rotate_session (the pipeline runs after
\* _init_session returned)
RotateCall(l) ==
    /\ srInitPc = "done"
    /\ srRotPc[l] = "idle"
    /\ srRotPc' = [srRotPc EXCEPT ![l] = "lock"]
    /\ srLast' = "called"
    /\ UNCHANGED << srReady, srSession, srInitPc, srLock, srAttempt, srRecent, srTaskPc >>
    /\ UNCHANGED notSess

\* the lock is granted: debounce, or clear the event and start closing
RotateEnter(l) ==
    /\ srRotPc[l] = "lock"
    /\ srLock = "free"
    /\ IF srRecent
       THEN /\ srRotPc' = [srRotPc EXCEPT ![l] = "idle"]
            /\ srLast' = "debounced"
            /\ UNCHANGED << srReady, srLock >>
       ELSE /\ srRotPc' = [srRotPc EXCEPT ![l] = "prepare"]
            /\ srLock' = l
            /\ srReady' = FALSE
            /\ srLast' = "cleared"
    /\ UNCHANGED << srSession, srInitPc, srAttempt, srRecent, srTaskPc >>
    /\ UNCHANGED notSess

\* session closed, proxy reported, sleep(1) over: build the first session
RotatePrepare(l) ==
    /\ srRotPc[l] = "prepare"
    /\ srSession' = "new"
    /\ srAttempt' = 0
    /\ srRotPc' = [srRotPc EXCEPT ![l] = "attempt"]
    /\ srLast' = "retrying"
    /\ UNCHANGED << srReady, srInitPc, srLock, srRecent, srTaskPc >>
    /\ UNCHANGED notSess

\* initialize() returns inside _rotate_session
RotateAttempt(l, success) ==
    /\ srRotPc[l] = "attempt"
    /\ AttemptOutcome(success)
    /\ srRecent' = TRUE
    /\ srRotPc' = [srRotPc EXCEPT ![l] = IF LoopEnds(success) THEN "idle" ELSE "attempt"]
    /\ srLock' = IF LoopEnds(success) THEN "free" ELSE srLock
    /\ srLast' = IF ~LoopEnds(success) THEN "retrying"
                 ELSE IF success THEN "rotate_ok" ELSE "rotate_failed"
    /\ UNCHANGED srInitPc
    /\ UNCHANGED notSess

\* five seconds pass since _last_rotate_time
DebounceExpires ==
    /\ srRecent
    /\ srRecent' = FALSE
    /\ srLast' = "time"
    /\ UNCHANGED << srReady, srSession, srInitPc, srRotPc, srLock, srAttempt, srTaskPc >>
    /\ UNCHANGED notSess

\* _process_task, TPS mode: the event is not set, wait for it (30 s at most)
TaskWaits ==
    /\ srInitPc = "done"
    /\ srTaskPc = "idle"
    /\ ~srReady
    /\ srTaskPc' = "waiting"
    /\ srLast' = "task_waits"
    /\ UNCHANGED << srReady, srSession, srInitPc, srRotPc, srLock, srAttempt, srRecent >>
    /\ UNCHANGED notSess

\* wait() returned: the task goes on to look at self._session
TaskResumes ==
    /\ srTaskPc = "woken"
    /\ srTaskPc' = "idle"
    /\ srLast' = "task_resumed"
    /\ UNCHANGED << srReady, srSession, srInitPc, srRotPc, srLock, srAttempt, srRecent >>
    /\ UNCHANGED notSess

\* asyncio.TimeoutError after 30 s: attempt += 1; continue
TaskWaitTimeout ==
    /\ srTaskPc = "waiting"
    /\ srTaskPc' = "idle"
    /\ srLast' = "task_timeout"
    /\ UNCHANGED << srReady, srSession, srInitPc, srRotPc, srLock, srAttempt, srRecent >>
    /\ UNCHANGED notSess

\* Worker.__init__: the event is new (not set), no session
SessIdle ==
    /\ srReady = FALSE
    /\ srSession = "none"
    /\ srInitPc = "start"
    /\ srRotPc = [l \in Rotators |-> "idle"]
    /\ srLock = "free"
    /\ srAttempt = 0
    /\ srRecent = FALSE
    /\ srTaskPc = "idle"
    /\ srLast = "none"

\* steps of an operation in progress: awaited calls that return
SessProgress ==
    \/ InitSessionStart
    \/ \E success \in BOOLEAN : InitSessionAttempt(success)
    \/ \E l \in Rotators : RotateEnter(l)
    \/ \E l \in Rotators : RotatePrepare(l)
    \/ \E l \in Rotators, success \in BOOLEAN : RotateAttempt(l, success)
    \/ TaskResumes

NextSess ==
    \/ InitSessionStart
    \/ \E success \in BOOLEAN : InitSessionAttempt(success)
    \/ \E l \in Rotators : RotateCall(l)
    \/ \E l \in Rotators : RotateEnter(l)
    \/ \E l \in Rotators : RotatePrepare(l)
    \/ \E l \in Rotators, success \in BOOLEAN : RotateAttempt(l, success)
    \/ DebounceExpires
    \/ TaskWaits
    \/ TaskResumes
    \/ TaskWaitTimeout

\* SpecHealth: one allocation pass outside a cooldown over workers that all
\* reported recently; w3 may have stopped syncing
HealthReports == { Report(100, 0), Report(95, 0), Report(60, 10) }
HealthBudgets == {10, 30}

HealthStart ==
    /\ cNow = AllocNow
    /\ regOrder = << "w1", "w2", "w3" >>
    /\ \E seen3 \in {AllocNow, AllocNow - ACTIVE_WINDOW_S} :
          lastSeen = [w \in Workers |-> IF w = "w3" THEN seen3 ELSE AllocNow]
    /\ \E f \in [Workers -> HealthReports] :
          workerMetrics = [w \in Workers |->
                              [ success_rate |-> f[w].success_rate,
                                block_rate |-> f[w].block_rate,
                                reported_at |-> AllocNow - TickStep ]]
    /\ workerQuotas = [w \in Workers |-> NoQuota]
    /\ gMaxConc \in HealthBudgets
    /\ gMaxQps = GLOBAL_MAX_QPS
    /\ gMinConc \in {MIN_CONCURRENCY, MIN_CONCURRENCY + 1}
    /\ globalBlockUntil = 0
    /\ blockCount = 0
    /\ recoveryEpoch = 0
    /\ blockTriggeredBy = "none"
    /\ recoveryJitter = << >>
    /\ coordHung = FALSE
    /\ lastAct = "init"
    /\ lastReport = NoReport

\* ========================================================================
\* TASK LIFE CYCLE: pull, result submission, release, timeout sweep, retry
\* ========================================================================

\* UPDATE tasks SET status = 'done', worker_id = ? WHERE id = ?
MarkDone(st, t, w) ==
    [st EXCEPT !.status[t] = "done", !.worker[t] = w]

\* UPDATE tasks SET status = 'failed', worker_id = ?, retry_count =
\* retry_count + 1 ... WHERE id = ?
MarkFailed(st, t, w) ==
    [st EXCEPT !.status[t] = "failed", !.worker[t] = w, !.retry[t] = @ + 1]

LifeState == [ status |-> tkStatus, worker |-> tkWorker, retry |-> tkRetry ]

SetLife(st) ==
    /\ tkStatus' = st.status
    /\ tkWorker' = st.worker
    /\ tkRetry' = st.retry

\* one result item: success with a result row, or a failure
ApplyResult(st, t, w, success) ==
    IF success THEN MarkDone(st, t, w) ELSE MarkFailed(st, t, w)

\* the items of a batch, applied in list order inside one transaction
RECURSIVE ApplyBatch(_, _, _, _)
ApplyBatch(st, items, w, ok) ==
    IF items = << >> THEN st
    ELSE ApplyBatch(ApplyResult(st, Head(items), w, ok[Head(items)]), Tail(items), w, ok)

\* the tasks of S in id order (t1 first)
RECURSIVE InIdOrder(_)
InIdOrder(S) ==
    IF S = {} THEN << >>
    ELSE LET t == CHOOSE x \in S : \A y \in S : x = y \/ ~(y = "t1") IN
         << t >> \o InIdOrder(S \ {t})

\* failures a result list would add stay within the retry_count values followed
WithinFailures(S, ok) == \A t \in S : ok[t] \/ tkRetry[t] < MaxFailures

\* GET /api/tasks/pull: a pending task becomes processing under the worker
LifePull(w, t) ==
    /\ tkStatus[t] = "pending"
    /\ tkStatus' = [tkStatus EXCEPT ![t] = "processing"]
    /\ tkWorker' = [tkWorker EXCEPT ![t] = w]
    /\ tkHeld' = [tkHeld EXCEPT ![w] = @ \cup {t}]
    /\ tkLast' = "pull"
    /\ UNCHANGED tkRetry
    /\ UNCHANGED notLife

\* POST /api/tasks/result
LifeSubmitResult(w, t, success) ==
    /\ t \in tkHeld[w]
    /\ WithinFailures({t}, [x \in {t} |-> success])
    /\ SetLife(ApplyResult(LifeState, t, w, success))
    /\ tkHeld' = [tkHeld EXCEPT ![w] = @ \ {t}]
    /\ tkLast' = "result"
    /\ UNCHANGED notLife

\* POST /api/tasks/result/batch
LifeSubmitBatch(w, S, ok) ==
    /\ S # {}
    /\ S \subseteq tkHeld[w]
    /\ WithinFailures(S, ok)
    /\ SetLife(ApplyBatch(LifeState, InIdOrder(S), w, ok))
    /\ tkHeld' = [tkHeld EXCEPT ![w] = @ \ S]
    /\ tkLast' = "batch"
    /\ UNCHANGED notLife

\* POST /api/tasks/release -> Database.release_tasks
LifeRelease(w, S) ==
    /\ S # {}
    /\ S \subseteq tkHeld[w]
    /\ tkStatus' = [t \in LifeTasks |->
                      IF t \in S /\ tkStatus[t] = "processing" THEN "pending"
                      ELSE tkStatus[t]]
    /\ tkWorker' = [t \in LifeTasks |->
                      IF t \in S /\ tkStatus[t] = "processing" THEN "null"
                      ELSE tkWorker[t]]
    /\ tkHeld' = [tkHeld EXCEPT ![w] = @ \ S]
    /\ tkLast' = "release"
    /\ UNCHANGED tkRetry
    /\ UNCHANGED notLife

\* Database.reset_timeout_tasks: the processing tasks older than the cutoff
\* (old) go back to pending; their workers are not told
LifeTimeoutSweep(old) ==
    /\ old # {}
    /\ \A t \in old : tkStatus[t] = "processing"
    /\ tkStatus' = [t \in LifeTasks |-> IF t \in old THEN "pending" ELSE tkStatus[t]]
    /\ tkWorker' = [t \in LifeTasks |-> IF t \in old THEN "null" ELSE tkWorker[t]]
    /\ tkLast' = "sweep"
    /\ UNCHANGED << tkRetry, tkHeld >>
    /\ UNCHANGED notLife

\* Database.retry_all_failed
LifeRetryAllFailed ==
    /\ \E t \in LifeTasks : tkStatus[t] = "failed" /\ tkRetry[t] < MAX_RETRIES
    /\ tkStatus' = [t \in LifeTasks |->
                      IF tkStatus[t] = "failed" /\ tkRetry[t] < MAX_RETRIES
                      THEN "pending" ELSE tkStatus[t]]
    /\ tkWorker' = [t \in LifeTasks |->
                      IF tkStatus[t] = "failed" /\ tkRetry[t] < MAX_RETRIES
                      THEN "null" ELSE tkWorker[t]]
    /\ tkLast' = "retry"
    /\ UNCHANGED << tkRetry, tkHeld >>
    /\ UNCHANGED notLife

\* a batch just created: every task pending, nothing pulled
LifeIdle ==
    /\ tkStatus = [t \in LifeTasks |-> "pending"]
    /\ tkWorker = [t \in LifeTasks |-> "null"]
    /\ tkRetry = [t \in LifeTasks |-> 0]
    /\ tkHeld = [w \in LifeWorkers |-> {}]
    /\ tkLast = "none"

NextLife ==
    \/ \E w \in LifeWorkers, t \in LifeTasks : LifePull(w, t)
    \/ \E w \in LifeWorkers, t \in LifeTasks, success \in BOOLEAN :
          LifeSubmitResult(w, t, success)
    \/ \E w \in LifeWorkers, S \in SUBSET LifeTasks, ok \in [LifeTasks -> BOOLEAN] :
          LifeSubmitBatch(w, S, ok)
    \/ \E w \in LifeWorkers, S \in SUBSET LifeTasks : LifeRelease(w, S)
    \/ \E old \in SUBSET LifeTasks : LifeTimeoutSweep(old)
    \/ LifeRetryAllFailed

\* ========================================================================
\* Tunnel channels (proxy.py) and the channel acquisition of a task
\* ========================================================================

\* config.TUNNEL_CHANNELS channels, ids 1..N
TunChannels == 3
ChannelIds == 1..TunChannels
\* config.TUNNEL_ROTATE_INTERVAL, in ticks of the model's clock
RotateTicks == 2
\* the clock stops here
TunHorizon == 2
\* the rotations counted
MaxRotations == 1
TunTasks == {"x", "y"}

\* ChannelState.reset_for_rotation on every channel
ResetForRotation == [c \in ChannelIds |-> FALSE]

\* init_tunnel_channels: the n proxies of the API's answer go to channels
\* 1..n; the other channels keep the proxy_url they had
UrlsAfterFetch(hasUrl, n) == [c \in ChannelIds |-> hasUrl[c] \/ c <= n]

\* the available list without the test of the blocked flag
AvailableAny(blocked, hasUrl) ==
    SelectSeq([i \in ChannelIds |-> i], LAMBDA c : hasUrl[c])
\* available = [ch for ch in channels if not ch.blocked and ch.proxy_url],
\* in the dict's order
Available(blocked, hasUrl) ==
    SelectSeq([i \in ChannelIds |-> i], LAMBDA c : ~blocked[c] /\ hasUrl[c])

all_channels_blocked(blocked) == \A c \in ChannelIds : blocked[c]

\* get_available_channel: the index it leaves and the channel id it returns
\* (0 for None)
NextRoundRobin(blocked, hasUrl, idx) ==
    IF Len(Available(blocked, hasUrl)) = 0 THEN idx
    ELSE (idx + 1) % Len(Available(blocked, hasUrl))

get_available_channel(blocked, hasUrl, idx) ==
    IF Len(Available(blocked, hasUrl)) = 0 THEN 0
    ELSE Available(blocked, hasUrl)[NextRoundRobin(blocked, hasUrl, idx) + 1]

\* wait_for_rotation: remaining = max(0, _rotation_at - now); the sleep ends
\* at now + remaining
WaitUntil(at, now) == now + Max(0, at - now)

\* _process_task enters its retry loop in tunnel mode
TunnelTaskStart(t) ==
    /\ tnPc[t] = "idle"
    /\ tnPc' = [tnPc EXCEPT ![t] = "acquire"]
    /\ tnAttempt' = [tnAttempt EXCEPT ![t] = 0]
    /\ tnLast' = "start"
    /\ UNCHANGED << chBlocked, rrIndex, tunNow, rotationAt, watchPc, rotations,
                    tnChannel, tnWake, tnSeen >>
    /\ UNCHANGED chHasUrl
    /\ UNCHANGED notTun

\* while attempt < max_retries: channel = get_available_channel(); a channel
\* is returned and the request is on its way
AcquireChannel(t) ==
    /\ tnPc[t] = "acquire"
    /\ get_available_channel(chBlocked, chHasUrl, rrIndex) # 0
    /\ rrIndex' = NextRoundRobin(chBlocked, chHasUrl, rrIndex)
    /\ tnChannel' = [tnChannel EXCEPT ![t] =
                        get_available_channel(chBlocked, chHasUrl, rrIndex)]
    /\ tnPc' = [tnPc EXCEPT ![t] = "request"]
    /\ tnLast' = "channel"
    /\ UNCHANGED << chBlocked, tunNow, rotationAt, watchPc, rotations,
                    tnAttempt, tnWake, tnSeen >>
    /\ UNCHANGED chHasUrl
    /\ UNCHANGED notTun

\* channel is None: await wait_for_rotation(), which sleeps the remaining time
\* to _rotation_at
AcquireNone(t) ==
    /\ tnPc[t] = "acquire"
    /\ get_available_channel(chBlocked, chHasUrl, rrIndex) = 0
    /\ tnWake' = [tnWake EXCEPT ![t] = WaitUntil(rotationAt, tunNow)]
    /\ tnSeen' = [tnSeen EXCEPT ![t] = rotations]
    /\ tnPc' = [tnPc EXCEPT ![t] = "wait"]
    /\ tnLast' = "none"
    /\ UNCHANGED << chBlocked, rrIndex, tunNow, rotationAt, watchPc, rotations,
                    tnAttempt, tnChannel >>
    /\ UNCHANGED chHasUrl
    /\ UNCHANGED notTun

\* the loop goes round after attempt += 1: the next iteration, or the exit
\* of the loop that submits the failure
AfterAttempt(t, attempt) == IF attempt < MAX_RETRIES THEN "acquire" ELSE "failed"

\* wait_for_rotation returns; attempt += 1; continue
WaitReturns(t) ==
    /\ tnPc[t] = "wait"
    /\ tunNow >= tnWake[t]
    /\ tnAttempt' = [tnAttempt EXCEPT ![t] = @ + 1]
    /\ tnPc' = [tnPc EXCEPT ![t] = AfterAttempt(t, tnAttempt[t] + 1)]
    /\ tnLast' = "woke"
    /\ UNCHANGED << chBlocked, rrIndex, tunNow, rotationAt, watchPc, rotations,
                    tnChannel, tnWake, tnSeen >>
    /\ UNCHANGED chHasUrl
    /\ UNCHANGED notTun

\* the page arrives and is not a block: the task returns
RequestSucceeds(t) ==
    /\ tnPc[t] = "request"
    /\ tnPc' = [tnPc EXCEPT ![t] = "done"]
    /\ tnChannel' = [tnChannel EXCEPT ![t] = 0]
    /\ tnLast' = "ok"
    /\ UNCHANGED << chBlocked, rrIndex, tunNow, rotationAt, watchPc, rotations,
                    tnAttempt, tnWake, tnSeen >>
    /\ UNCHANGED chHasUrl
    /\ UNCHANGED notTun

\* session.is_blocked(resp): attempt += 1; report_blocked(channel) marks the
\* channel
RequestBlocked(t) ==
    /\ tnPc[t] = "request"
    /\ chBlocked' = [chBlocked EXCEPT ![tnChannel[t]] = TRUE]
    /\ tnAttempt' = [tnAttempt EXCEPT ![t] = @ + 1]
    /\ tnPc' = [tnPc EXCEPT ![t] = AfterAttempt(t, tnAttempt[t] + 1)]
    /\ tnChannel' = [tnChannel EXCEPT ![t] = 0]
    /\ tnLast' = "blocked"
    /\ UNCHANGED << rrIndex, tunNow, rotationAt, watchPc, rotations, tnWake, tnSeen >>
    /\ UNCHANGED chHasUrl
    /\ UNCHANGED notTun

\* resp is None (timeout, network): attempt += 1, the channel stays
RequestTimesOut(t) ==
    /\ tnPc[t] = "request"
    /\ tnAttempt' = [tnAttempt EXCEPT ![t] = @ + 1]
    /\ tnPc' = [tnPc EXCEPT ![t] = AfterAttempt(t, tnAttempt[t] + 1)]
    /\ tnChannel' = [tnChannel EXCEPT ![t] = 0]
    /\ tnLast' = "timeout"
    /\ UNCHANGED << chBlocked, rrIndex, tunNow, rotationAt, watchPc, rotations,
                    tnWake, tnSeen >>
    /\ UNCHANGED chHasUrl
    /\ UNCHANGED notTun

\* _ip_rotation_watcher wakes and handle_ip_rotation finds now < _rotation_at
WatcherTooEarly ==
    /\ watchPc = "sleep"
    /\ tunNow < rotationAt
    /\ tnLast' = "early"
    /\ tnLast # "early"
    /\ UNCHANGED << chBlocked, rrIndex, tunNow, rotationAt, watchPc, rotations,
                    tnPc, tnAttempt, tnChannel, tnWake, tnSeen >>
    /\ UNCHANGED chHasUrl
    /\ UNCHANGED notTun

\* handle_ip_rotation at or after _rotation_at: every channel is reset and
\* True is returned; the watcher goes into rebuild_all
HandleIPRotation ==
    /\ watchPc = "sleep"
    /\ tunNow >= rotationAt
    /\ rotations < MaxRotations
    /\ chBlocked' = ResetForRotation
    /\ rotations' = rotations + 1
    /\ watchPc' = "rebuild"
    /\ tnLast' = "rotated"
    /\ UNCHANGED << rrIndex, tunNow, rotationAt, tnPc, tnAttempt, tnChannel,
                    tnWake, tnSeen >>
    /\ UNCHANGED chHasUrl
    /\ UNCHANGED notTun

\* rebuild_all: the proxies are fetched again (init_tunnel_channels resets
\* the channels and sets _rotation_at = now + interval) or the API returns
\* nothing and _rotation_at stays
WatcherRebuild ==
    /\ watchPc = "rebuild"
    /\ \E n \in 0..TunChannels :
          /\ rotationAt' = IF n > 0 THEN tunNow + RotateTicks ELSE rotationAt
          /\ chBlocked' = [c \in ChannelIds |-> chBlocked[c] /\ c > n]
          /\ chHasUrl' = UrlsAfterFetch(chHasUrl, n)
          /\ tnLast' = IF n > 0 THEN "rebuilt" ELSE "rebuild_failed"
    /\ watchPc' = "sleep"
    /\ UNCHANGED << rrIndex, tunNow, rotations, tnPc, tnAttempt, tnChannel,
                    tnWake, tnSeen >>
    /\ UNCHANGED notTun

\* the clock moves
TunTick ==
    /\ tunNow < TunHorizon
    /\ tunNow' = tunNow + 1
    /\ tnLast' = "tick"
    /\ UNCHANGED << chBlocked, rrIndex, rotationAt, watchPc, rotations,
                    tnPc, tnAttempt, tnChannel, tnWake, tnSeen >>
    /\ UNCHANGED chHasUrl
    /\ UNCHANGED notTun

\* after ProxyManager.__init__ and init_tunnel_channels at time 0, which
\* got n proxies
TunWith(n) ==
    /\ chBlocked = ResetForRotation
    /\ chHasUrl = UrlsAfterFetch([c \in ChannelIds |-> FALSE], n)
    /\ rrIndex = 0
    /\ tunNow = 0
    /\ rotationAt = RotateTicks
    /\ watchPc = "sleep"
    /\ rotations = 0
    /\ tnPc = [t \in TunTasks |-> "idle"]
    /\ tnAttempt = [t \in TunTasks |-> 0]
    /\ tnChannel = [t \in TunTasks |-> 0]
    /\ tnWake = [t \in TunTasks |-> 0]
    /\ tnSeen = [t \in TunTasks |-> 0]
    /\ tnLast = "init"

TunIdle == TunWith(TunChannels)

InitTun == \E n \in 0..TunChannels : TunWith(n)

NextTun ==
    \/ \E t \in TunTasks : TunnelTaskStart(t)
    \/ \E t \in TunTasks : AcquireChannel(t)
    \/ \E t \in TunTasks : AcquireNone(t)
    \/ \E t \in TunTasks : WaitReturns(t)
    \/ \E t \in TunTasks : RequestSucceeds(t)
    \/ \E t \in TunTasks : RequestBlocked(t)
    \/ \E t \in TunTasks : RequestTimesOut(t)
    \/ WatcherTooEarly
    \/ HandleIPRotation
    \/ WatcherRebuild
    \/ TunTick

\* ========================================================================
\* Task outcomes in the metrics window and the evaluation tick reading them
\* ========================================================================

\* how _process_task can end, and the (success, blocked) it returns:
\* "page": a page parsed, return (True, False, ...);
\* "parse_exhausted": every attempt ended in an empty page, a parse failure
\*    or an empty title, the loop ran out, return (False, False, ...);
\* "tps_blocked": HTTP 403/503 in TPS mode, return (False, True, ...)
OutcomeKinds == {"page", "parse_exhausted", "tps_blocked"}
ReturnedSuccess(kind) == kind = "page"
ReturnedBlocked(kind) == kind = "tps_blocked"

\* snapshot(): successes / total and blocks / total, in percent (rounded
\* down; 1.0 and 0.0 for an empty window)
CountOf(records, Test(_)) == Len(SelectSeq(records, Test))
SuccessPct(records) ==
    IF records = << >> THEN 100
    ELSE (100 * CountOf(records, ReturnedSuccess)) \div Len(records)
BlockPct(records) ==
    IF records = << >> THEN 0
    ELSE (100 * CountOf(records, ReturnedBlocked)) \div Len(records)

\* the snapshot the evaluator reads: quick pages, no bandwidth cap
WindowSnap(records) ==
    Snap(Len(records), BlockPct(records), SuccessPct(records), 1, 0, 0)

\* _worker_loop step 5: record_result(success, blocked) of the task that
\* has just returned
RecordOutcome(kind) ==
    /\ Len(owRecords) < MaxWindow
    /\ owRecords' = Append(owRecords, kind)
    /\ UNCHANGED notOw

\* _prune(): the oldest record leaves the window
OutcomeExpires ==
    /\ owRecords # << >>
    /\ owRecords' = Tail(owRecords)
    /\ UNCHANGED notOw

\* _adjust_loop: _evaluate on the snapshot of the window
WindowTick ==
    \/ Evaluate(WindowSnap(owRecords))
    \/ EvaluateSkip(WindowSnap(owRecords)) /\ owRecords # << >>

OwIdle == owRecords = << >>

NextWindow ==
    \/ \E kind \in OutcomeKinds : RecordOutcome(kind)
    \/ OutcomeExpires
    \/ WindowTick

\* ========================================================================
\* In-flight accounting of the processing loops (worker.py, _worker_loop)
\* ========================================================================

IfLoops == 1..3
\* Semaphore(self._concurrency) at construction
IfSlots == 2

\* MetricsCollector.request_start
request_start(n) == n + 1

\* MetricsCollector.request_end with the decrement left out
request_end_kept(n) == n
\* MetricsCollector.request_end
request_end(n) == Max(0, n - 1)

\* `finally: self._controller.release()`: request_end, then
\* self._semaphore.release(); the loop goes on at `to`
FinallyRelease(l, to, step) ==
    /\ ifInflight' = request_end(ifInflight)
    /\ ifSem' = ifSem + 1
    /\ ifBalance' = [ifBalance EXCEPT ![l] = @ - 1]
    /\ ifPc' = [ifPc EXCEPT ![l] = to]
    /\ ifLast' = step
    /\ UNCHANGED ifRunning
    /\ UNCHANGED notIf

\* while self._running: await self._controller.acquire() returns: the
\* semaphore is taken, then request_start
IfAcquire(l) ==
    /\ ifPc[l] = "top"
    /\ ifRunning
    /\ ifSem > 0
    /\ ifSem' = ifSem - 1
    /\ ifInflight' = request_start(ifInflight)
    /\ ifBalance' = [ifBalance EXCEPT ![l] = @ + 1]
    /\ ifPc' = [ifPc EXCEPT ![l] = "get"]
    /\ ifLast' = "acquired"
    /\ UNCHANGED ifRunning
    /\ UNCHANGED notIf

\* the loop is cancelled at the top or while it waits inside
\* Semaphore.acquire(): CancelledError reaches `except: break`, nothing was
\* acquired
IfCancelledWaiting(l) ==
    /\ ifPc[l] = "top"
    /\ ifPc' = [ifPc EXCEPT ![l] = "exited"]
    /\ ifLast' = "cancelled_waiting"
    /\ UNCHANGED << ifSem, ifInflight, ifRunning, ifBalance >>
    /\ UNCHANGED notIf

\* the loop condition fails
IfLoopEnds(l) ==
    /\ ifPc[l] = "top"
    /\ ~ifRunning
    /\ ifPc' = [ifPc EXCEPT ![l] = "exited"]
    /\ ifLast' = "ended"
    /\ UNCHANGED << ifSem, ifInflight, ifRunning, ifBalance >>
    /\ UNCHANGED notIf

\* wait_for(self._task_queue.get(), 5.0) times out: continue
IfDequeueTimeout(l) ==
    /\ ifPc[l] = "get"
    /\ FinallyRelease(l, "top", "dequeue_timeout")

\* task is None: break
IfSentinel(l) ==
    /\ ifPc[l] = "get"
    /\ FinallyRelease(l, "exited", "sentinel")

\* a task is dequeued and _process_task is entered
IfTaskStarts(l) ==
    /\ ifPc[l] = "get"
    /\ ifPc' = [ifPc EXCEPT ![l] = "task"]
    /\ ifLast' = "task"
    /\ UNCHANGED << ifSem, ifInflight, ifRunning, ifBalance >>
    /\ UNCHANGED notIf

\* _process_task returns and record_result runs
IfTaskDone(l) ==
    /\ ifPc[l] = "task"
    /\ FinallyRelease(l, "top", "done")

\* _process_task or record_result raises: finally, then `except Exception`
\* logs, sleeps and the loop goes on
IfException(l) ==
    /\ ifPc[l] = "task"
    /\ FinallyRelease(l, "top", "exception")

\* the loop is cancelled between acquire and release: finally, then
\* `except asyncio.CancelledError: break`
IfCancelledHolding(l) ==
    /\ ifPc[l] \in {"get", "task"}
    /\ FinallyRelease(l, "exited", "cancelled_holding")

\* Worker.stop: _running = False
IfStop ==
    /\ ifRunning
    /\ ifRunning' = FALSE
    /\ ifLast' = "stop"
    /\ UNCHANGED << ifPc, ifSem, ifInflight, ifBalance >>
    /\ UNCHANGED notIf

IfIdle ==
    /\ ifPc = [l \in IfLoops |-> "top"]
    /\ ifSem = IfSlots
    /\ ifInflight = 0
    /\ ifRunning = TRUE
    /\ ifBalance = [l \in IfLoops |-> 0]
    /\ ifLast = "init"

NextInflight ==
    \/ \E l \in IfLoops : IfAcquire(l)
    \/ \E l \in IfLoops : IfCancelledWaiting(l)
    \/ \E l \in IfLoops : IfLoopEnds(l)
    \/ \E l \in IfLoops : IfDequeueTimeout(l)
    \/ \E l \in IfLoops : IfSentinel(l)
    \/ \E l \in IfLoops : IfTaskStarts(l)
    \/ \E l \in IfLoops : IfTaskDone(l)
    \/ \E l \in IfLoops : IfException(l)
    \/ \E l \in IfLoops : IfCancelledHolding(l)
    \/ IfStop

\* ========================================================================
\* TPS proxy cache (proxy.py): single-flight refresh
\* ========================================================================

TpsCallers == 1..3
\* for attempt in range(3)
FETCH_ATTEMPTS == 3

\* the test at the head of _tps_get_proxy
CacheValid == tpCurrent # 0 /\ tpValid

\* the test under the lock, left out
LockedCheckSkipped == FALSE
\* the test repeated under the lock in _tps_refresh_proxy
LockedCheck == tpCurrent # 0 /\ tpValid

\* async with self._fetch_lock: taken at once when free and nobody queues,
\* else the caller queues
EnterRefresh(c) ==
    IF tpHolder = 0 /\ tpQueue = << >>
    THEN /\ tpHolder' = c
         /\ tpPc' = [tpPc EXCEPT ![c] = "locked"]
         /\ tpWaited' = [tpWaited EXCEPT ![c] = FALSE]
         /\ UNCHANGED tpQueue
    ELSE /\ tpQueue' = Append(tpQueue, c)
         /\ tpPc' = [tpPc EXCEPT ![c] = "waiting"]
         /\ tpWaited' = [tpWaited EXCEPT ![c] = TRUE]
         /\ UNCHANGED tpHolder

\* leaving the `async with`: the lock goes to the first waiter; the caller
\* returns ret
LeaveRefresh(c, ret) ==
    /\ tpResult' = [tpResult EXCEPT ![c] = ret]
    /\ IF tpQueue = << >>
       THEN /\ tpHolder' = 0
            /\ tpPc' = [tpPc EXCEPT ![c] = "done"]
            /\ UNCHANGED tpQueue
       ELSE /\ tpHolder' = Head(tpQueue)
            /\ tpQueue' = Tail(tpQueue)
            /\ tpPc' = [tpPc EXCEPT ![c] = "done", ![Head(tpQueue)] = "locked"]

\* _tps_get_proxy: the cached proxy when it is valid, else _tps_refresh_proxy
TpsGetProxy(c) ==
    /\ tpPc[c] = "idle"
    /\ tpCalls' = [tpCalls EXCEPT ![c] = 0]
    /\ IF CacheValid
       THEN /\ tpPc' = [tpPc EXCEPT ![c] = "done"]
            /\ tpResult' = [tpResult EXCEPT ![c] = tpCurrent]
            /\ tpWaited' = [tpWaited EXCEPT ![c] = FALSE]
            /\ UNCHANGED << tpHolder, tpQueue >>
       ELSE /\ EnterRefresh(c)
            /\ UNCHANGED tpResult
    /\ UNCHANGED << tpCurrent, tpValid, tpAttempt, tpInFlight, tpFetched >>
    /\ UNCHANGED notTps

\* _tps_report_blocked: _proxy_expire_at = 0, _current_proxy = None, then
\* _tps_refresh_proxy
TpsReportBlocked(c) ==
    /\ tpPc[c] = "idle"
    /\ tpCalls' = [tpCalls EXCEPT ![c] = 0]
    /\ tpCurrent' = 0
    /\ tpValid' = FALSE
    /\ EnterRefresh(c)
    /\ UNCHANGED << tpAttempt, tpInFlight, tpFetched, tpResult >>
    /\ UNCHANGED notTps

\* under the lock: the cached proxy if it is valid by now, else (after the
\* 1 s spacing sleep) the first API call goes out
TpsUnderLock(c) ==
    /\ tpPc[c] = "locked"
    /\ IF LockedCheck
       THEN /\ LeaveRefresh(c, tpCurrent)
            /\ UNCHANGED << tpAttempt, tpInFlight, tpCalls >>
       ELSE /\ tpFetched < MaxProxies
            /\ tpPc' = [tpPc EXCEPT ![c] = "fetching"]
            /\ tpAttempt' = 0
            /\ tpInFlight' = tpInFlight + 1
            /\ tpCalls' = [tpCalls EXCEPT ![c] = @ + 1]
            /\ UNCHANGED << tpHolder, tpQueue, tpResult >>
    /\ UNCHANGED << tpCurrent, tpValid, tpFetched, tpWaited >>
    /\ UNCHANGED notTps

\* _fetch_proxies_from_api returns a proxy: it is stored with a fresh expiry
\* and returned
TpsFetchSucceeds(c) ==
    /\ tpPc[c] = "fetching"
    /\ tpInFlight' = tpInFlight - 1
    /\ tpFetched' = tpFetched + 1
    /\ tpCurrent' = tpFetched + 1
    /\ tpValid' = TRUE
    /\ LeaveRefresh(c, tpFetched + 1)
    /\ UNCHANGED << tpAttempt, tpCalls, tpWaited >>
    /\ UNCHANGED notTps

\* _fetch_proxies_from_api returns nothing: sleep 2 ** attempt and try
\* again, or after the third attempt return _current_proxy as it is
TpsFetchFails(c) ==
    /\ tpPc[c] = "fetching"
    /\ tpInFlight' = tpInFlight - 1
    /\ IF tpAttempt < FETCH_ATTEMPTS - 1
       THEN /\ tpPc' = [tpPc EXCEPT ![c] = "backoff"]
            /\ UNCHANGED << tpHolder, tpQueue, tpResult >>
       ELSE LeaveRefresh(c, tpCurrent)
    /\ UNCHANGED << tpCurrent, tpValid, tpAttempt, tpFetched, tpCalls, tpWaited >>
    /\ UNCHANGED notTps

\* the backoff sleep ends and the next API call goes out
TpsFetchAgain(c) ==
    /\ tpPc[c] = "backoff"
    /\ tpPc' = [tpPc EXCEPT ![c] = "fetching"]
    /\ tpAttempt' = tpAttempt + 1
    /\ tpInFlight' = tpInFlight + 1
    /\ tpCalls' = [tpCalls EXCEPT ![c] = @ + 1]
    /\ UNCHANGED << tpHolder, tpQueue, tpCurrent, tpValid, tpFetched, tpWaited, tpResult >>
    /\ UNCHANGED notTps

\* time passes _proxy_expire_at
TpsExpires ==
    /\ tpValid
    /\ tpValid' = FALSE
    /\ UNCHANGED << tpPc, tpHolder, tpQueue, tpCurrent, tpAttempt, tpInFlight,
                    tpFetched, tpCalls, tpWaited, tpResult >>
    /\ UNCHANGED notTps

\* the caller uses what it got and will call again
TpsCallerGoesOn(c) ==
    /\ tpPc[c] = "done"
    /\ tpPc' = [tpPc EXCEPT ![c] = "idle"]
    /\ UNCHANGED << tpHolder, tpQueue, tpCurrent, tpValid, tpAttempt, tpInFlight,
                    tpFetched, tpCalls, tpWaited, tpResult >>
    /\ UNCHANGED notTps

TpsIdle ==
    /\ tpPc = [c \in TpsCallers |-> "idle"]
    /\ tpHolder = 0
    /\ tpQueue = << >>
    /\ tpCurrent = 0
    /\ tpValid = FALSE
    /\ tpAttempt = 0
    /\ tpInFlight = 0
    /\ tpFetched = 0
    /\ tpCalls = [c \in TpsCallers |-> 0]
    /\ tpWaited = [c \in TpsCallers |-> FALSE]
    /\ tpResult = [c \in TpsCallers |-> 0]

NextTps ==
    \/ \E c \in TpsCallers : TpsGetProxy(c)
    \/ \E c \in TpsCallers : TpsReportBlocked(c)
    \/ \E c \in TpsCallers : TpsUnderLock(c)
    \/ \E c \in TpsCallers : TpsFetchSucceeds(c)
    \/ \E c \in TpsCallers : TpsFetchFails(c)
    \/ \E c \in TpsCallers : TpsFetchAgain(c)
    \/ TpsExpires
    \/ \E c \in TpsCallers : TpsCallerGoesOn(c)

\* ========================================================================
\* RESULT QUEUE (worker.py): _batch_submitter, _flush_results, _cleanup
\* ========================================================================

\* the test of `while self._running or not self._result_queue.empty()`
SubmitterGoesOn(run, queue) == run \/ queue # << >>

\* a worker loop finishes a task: _submit_result puts the payload on the
\* queue.  A loop that holds a task when stop() is called still finishes it.
PutResult ==
    /\ sbPool = "running"
    /\ sbProduced < MaxResults
    /\ sbProduced' = sbProduced + 1
    /\ rqQueue' = Append(rqQueue, sbProduced + 1)
    /\ UNCHANGED << sbBatch, sbPc, sbRunning, sbPool, sbHanded, sbCleanup >>
    /\ UNCHANGED notBatch

\* Worker.stop(): _running = False
StopProducing ==
    /\ sbRunning
    /\ sbRunning' = FALSE
    /\ UNCHANGED << rqQueue, sbBatch, sbPc, sbPool, sbProduced, sbHanded, sbCleanup >>
    /\ UNCHANGED notBatch

\* after stop() every loop comes to its end and _worker_pool returns
PoolFinishes ==
    /\ ~sbRunning
    /\ sbPool = "running"
    /\ sbPool' = "finished"
    /\ UNCHANGED << rqQueue, sbBatch, sbPc, sbRunning, sbProduced, sbHanded, sbCleanup >>
    /\ UNCHANGED notBatch

\* the first wait_for(get, batch_interval) delivers an item
SubmitterGetsFirst ==
    /\ sbPc = "first"
    /\ rqQueue # << >>
    /\ sbBatch' = Append(sbBatch, Head(rqQueue))
    /\ rqQueue' = Tail(rqQueue)
    /\ sbPc' = "collect"
    /\ UNCHANGED << sbRunning, sbPool, sbProduced, sbHanded, sbCleanup >>
    /\ UNCHANGED notBatch

\* the first wait_for times out on an empty queue: `continue`, and the loop
\* test is taken again (batch is empty here)
SubmitterFirstTimeout ==
    /\ sbPc = "first"
    /\ rqQueue = << >>
    /\ sbPc' = IF SubmitterGoesOn(sbRunning, rqQueue) THEN "first" ELSE "exited"
    /\ sbPc' # sbPc
    /\ UNCHANGED << rqQueue, sbBatch, sbRunning, sbPool, sbProduced, sbHanded, sbCleanup >>
    /\ UNCHANGED notBatch

\* inside the window, while len(batch) < batch_size, another item arrives
SubmitterCollects ==
    /\ sbPc = "collect"
    /\ Len(sbBatch) < BatchSize
    /\ rqQueue # << >>
    /\ sbBatch' = Append(sbBatch, Head(rqQueue))
    /\ rqQueue' = Tail(rqQueue)
    /\ UNCHANGED << sbPc, sbRunning, sbPool, sbProduced, sbHanded, sbCleanup >>
    /\ UNCHANGED notBatch

\* the batch is full, or the window is over: await self._submit_batch(batch)
SubmitterSubmits ==
    /\ sbPc = "collect"
    /\ Len(sbBatch) = BatchSize \/ rqQueue = << >>
    /\ sbHanded' = Append(sbHanded, sbBatch)
    /\ sbPc' = "submitting"
    /\ UNCHANGED << rqQueue, sbBatch, sbRunning, sbPool, sbProduced, sbCleanup >>
    /\ UNCHANGED notBatch

\* _submit_batch returns: batch = [], and the loop test is taken again
SubmitReturns ==
    /\ sbPc = "submitting"
    /\ sbBatch' = << >>
    /\ sbPc' = IF SubmitterGoesOn(sbRunning, rqQueue) THEN "first" ELSE "exited"
    /\ UNCHANGED << rqQueue, sbRunning, sbPool, sbProduced, sbHanded, sbCleanup >>
    /\ UNCHANGED notBatch

\* the task running start() is cancelled: gather cancels its children.  The
\* submitter gets CancelledError at its await, breaks out of the loop and
\* runs `if batch: await self._submit_batch(batch)`; the loops end.
GatherCancelled ==
    /\ sbPc # "exited"
    /\ sbPool = "running"
    /\ sbRunning' = sbRunning
    /\ sbPool' = "finished"
    /\ sbPc' = "exited"
    /\ sbHanded' = IF sbBatch # << >> THEN Append(sbHanded, sbBatch) ELSE sbHanded
    /\ sbBatch' = sbBatch
    /\ UNCHANGED << rqQueue, sbProduced, sbCleanup >>
    /\ UNCHANGED notBatch

\* _flush_results: everything left on the queue, in one list
FlushBatch(queue) == queue

\* gather has returned: _cleanup calls _flush_results
CleanupFlush ==
    /\ sbPc = "exited"
    /\ sbPool = "finished"
    /\ ~sbCleanup
    /\ sbCleanup' = TRUE
    /\ sbHanded' = IF rqQueue # << >> THEN Append(sbHanded, FlushBatch(rqQueue)) ELSE sbHanded
    /\ rqQueue' = << >>
    /\ UNCHANGED << sbBatch, sbPc, sbRunning, sbPool, sbProduced >>
    /\ UNCHANGED notBatch

BatchIdle ==
    /\ rqQueue = << >>
    /\ sbBatch = << >>
    /\ sbPc = "first"
    /\ sbRunning = TRUE
    /\ sbPool = "running"
    /\ sbProduced = 0
    /\ sbHanded = << >>
    /\ sbCleanup = FALSE

NextBatch ==
    \/ PutResult
    \/ StopProducing
    \/ PoolFinishes
    \/ SubmitterGetsFirst
    \/ SubmitterFirstTimeout
    \/ SubmitterCollects
    \/ SubmitterSubmits
    \/ SubmitReturns
    \/ GatherCancelled
    \/ CleanupFlush

\* ========================================================================
\* RESIZES (adaptive.py, worker.py): the evaluation tick against the sync
\* routine's forced shrinks
\* ========================================================================

Routines == {"tick", "sync"}

\* _resize_semaphore suspends, handing the event loop to other coroutines
ResizeYields == TRUE
\* the body of _resize_semaphore has no await: `await` on it runs it to its
\* end without giving up the event loop
ResizeSuspends == FALSE

\* _resize_semaphore on the number of permits: diff releases when growing,
\* a new Semaphore(max(new_value, 1)) when shrinking
ResizedCapacity(cap, old_value, new_value) ==
    IF new_value > old_value THEN cap + (new_value - old_value)
    ELSE IF new_value < old_value THEN Max(new_value, 1)
    ELSE cap

\* new_c of _evaluate for some snapshot: multiplicative decrease, +1, or hold
TickTargets(c, mn, mx) == { Max(mn, c \div 2), Min(mx, c + 1), c }

\* a coroutine may run when the event loop is free or it is running already
MayRun(r) == rzTurn = r \/ rzTurn = "none"

\* _evaluate takes _adjust_lock (free: it is the only taker), reads old_c
\* and decides new_c; with new_c = old_c it leaves at once
TickBegin ==
    /\ rzTurn = "none"
    /\ rzPc["tick"] = "idle"
    /\ ~rzLock
    /\ \E new_c \in TickTargets(rzC, 1, rzMax) :
          /\ rzOld' = [rzOld EXCEPT !["tick"] = rzC]
          /\ rzNew' = [rzNew EXCEPT !["tick"] = new_c]
          /\ IF new_c # rzC
             THEN /\ rzPc' = [rzPc EXCEPT !["tick"] = "computed"]
                  /\ rzLock' = TRUE
                  /\ rzTurn' = "tick"
             ELSE UNCHANGED << rzPc, rzLock, rzTurn >>
    /\ UNCHANGED << rzC, rzMax, rzCap, rzTarget, rzFromCurrent, rzResizes >>
    /\ UNCHANGED notRz

\* quota enforcement of _settings_sync: _max = quota, and a shrink when
\* _concurrency > quota
SyncQuotaBegin(q) ==
    /\ rzTurn = "none"
    /\ rzPc["sync"] = "idle"
    /\ q # rzMax
    /\ rzMax' = q
    /\ rzOld' = [rzOld EXCEPT !["sync"] = rzC]
    /\ rzNew' = [rzNew EXCEPT !["sync"] = q]
    /\ IF rzC > q
       THEN /\ rzPc' = [rzPc EXCEPT !["sync"] = "computed"]
            /\ rzTurn' = "sync"
       ELSE UNCHANGED << rzPc, rzTurn >>
    /\ UNCHANGED << rzC, rzCap, rzLock, rzTarget, rzFromCurrent, rzResizes >>
    /\ UNCHANGED notRz

\* global-block reaction of _settings_sync: new_c = max(_min, C // 2) with
\* _min = 1, and a
\* shrink when new_c < C
SyncBlockBegin ==
    /\ rzTurn = "none"
    /\ rzPc["sync"] = "idle"
    /\ Max(1, rzC \div 2) < rzC
    /\ rzOld' = [rzOld EXCEPT !["sync"] = rzC]
    /\ rzNew' = [rzNew EXCEPT !["sync"] = Max(1, rzC \div 2)]
    /\ rzPc' = [rzPc EXCEPT !["sync"] = "computed"]
    /\ rzTurn' = "sync"
    /\ UNCHANGED << rzC, rzMax, rzCap, rzLock, rzTarget, rzFromCurrent, rzResizes >>
    /\ UNCHANGED notRz

\* await self._resize_semaphore(old, new)
CallResize(r) ==
    /\ rzTurn = r
    /\ rzPc[r] = "computed"
    /\ rzResizes < MaxResizes
    /\ rzCap' = ResizedCapacity(rzCap, rzOld[r], rzNew[r])
    /\ rzTarget' = rzNew[r]
    /\ rzFromCurrent' = (rzFromCurrent /\ rzOld[r] = rzC)
    /\ rzResizes' = rzResizes + 1
    /\ rzPc' = [rzPc EXCEPT ![r] = "resized"]
    /\ rzTurn' = IF ResizeSuspends THEN "none" ELSE r
    /\ UNCHANGED << rzC, rzMax, rzLock, rzOld, rzNew >>
    /\ UNCHANGED notRz

\* self._concurrency = new_c; the tick then leaves the lock
AssignTarget(r) ==
    /\ MayRun(r)
    /\ rzPc[r] = "resized"
    /\ rzC' = rzNew[r]
    /\ rzPc' = [rzPc EXCEPT ![r] = "idle"]
    /\ rzLock' = IF r = "tick" THEN FALSE ELSE rzLock
    /\ rzTurn' = "none"
    /\ UNCHANGED << rzMax, rzCap, rzOld, rzNew, rzTarget, rzFromCurrent, rzResizes >>
    /\ UNCHANGED notRz

RzIdle ==
    /\ rzC = 2
    /\ rzMax = MaxC
    /\ rzCap = 2
    /\ rzLock = FALSE
    /\ rzTurn = "none"
    /\ rzPc = [r \in Routines |-> "idle"]
    /\ rzOld = [r \in Routines |-> 0]
    /\ rzNew = [r \in Routines |-> 0]
    /\ rzTarget = 2
    /\ rzFromCurrent = TRUE
    /\ rzResizes = 0

NextResize ==
    \/ TickBegin
    \/ \E q \in 1..MaxC : SyncQuotaBegin(q)
    \/ SyncBlockBegin
    \/ \E r \in Routines : CallResize(r)
    \/ \E r \in Routines : AssignTarget(r)

\* ========================================================================
\* SHUTDOWN (worker.py): Worker.stop against feeder, loops, pool, submitter
\* ========================================================================

\* the processing loops _worker_pool has started; _max equals their number
SdLoops == 1..2

SdRoom(q) == SdQueueSize - Len(q)

\* fetch_count = min(current_concurrency * 2, queue_size - qsize); the
\* floor of 5 does not bind below the threshold of a queue of 100
SdFetchCount(q) == Min(2 * Cardinality(SdLoops), SdRoom(q))

\* _task_feeder at `while self._running`: leave, pull when the queue is
\* below int(queue_size * 0.5), else sleep 1 s
SdFeederTop ==
    /\ sdLast' = "SdFeederTop"
    /\ sdFeeder = "top"
    /\ IF ~sdRunning
       THEN sdFeeder' = "exited" /\ sdFetch' = 0
       ELSE IF Len(sdQueue) < SdQueueSize \div 2
       THEN sdFeeder' = "pulling" /\ sdFetch' = SdFetchCount(sdQueue)
       ELSE sdFeeder' = "sleeping" /\ sdFetch' = 0
    /\ UNCHANGED << sdRunning, sdQueue, sdPending, sdLoop, sdPool, sdSubmitter,
                    sdResults, sdCleanup >>
    /\ UNCHANGED notSd

\* _pull_tasks returns n tasks: none -> backoff sleep, else the puts begin
SdPullReturns(n) ==
    /\ sdLast' = "SdPullReturns"
    /\ sdFeeder = "pulling"
    /\ n <= sdFetch
    /\ sdFeeder' = IF n = 0 THEN "sleeping" ELSE "putting"
    /\ sdPending' = n
    /\ sdFetch' = 0
    /\ UNCHANGED << sdRunning, sdQueue, sdLoop, sdPool, sdSubmitter, sdResults,
                    sdCleanup >>
    /\ UNCHANGED notSd

\* await self._task_queue.put(task): goes through only when there is room;
\* after the last task the feeder is back at the while test
SdFeederPut ==
    /\ sdLast' = "SdFeederPut"
    /\ sdFeeder = "putting"
    /\ Len(sdQueue) < SdQueueSize
    /\ sdQueue' = Append(sdQueue, 1)
    /\ sdPending' = sdPending - 1
    /\ sdFeeder' = IF sdPending = 1 THEN "top" ELSE "putting"
    /\ UNCHANGED << sdRunning, sdFetch, sdLoop, sdPool, sdSubmitter, sdResults,
                    sdCleanup >>
    /\ UNCHANGED notSd

\* asyncio.sleep returns
SdFeederWake ==
    /\ sdLast' = "SdFeederWake"
    /\ sdFeeder = "sleeping"
    /\ sdFeeder' = "top"
    /\ UNCHANGED << sdRunning, sdQueue, sdFetch, sdPending, sdLoop, sdPool,
                    sdSubmitter, sdResults, sdCleanup >>
    /\ UNCHANGED notSd

\* Worker.stop: _running = False, then put_nowait(None) _max times or until
\* QueueFull
SdStop ==
    /\ sdLast' = "SdStop"
    /\ sdRunning
    /\ sdRunning' = FALSE
    /\ sdQueue' = sdQueue \o [i \in 1..Min(Cardinality(SdLoops), SdRoom(sdQueue)) |-> 0]
    /\ UNCHANGED << sdFeeder, sdFetch, sdPending, sdLoop, sdPool, sdSubmitter,
                    sdResults, sdCleanup >>
    /\ UNCHANGED notSd

\* _worker_loop at `while self._running`: leave, or acquire a slot and wait
\* on the queue
SdLoopTop(l) ==
    /\ sdLast' = "SdLoopTop"
    /\ sdLoop[l] = "top"
    /\ sdLoop' = [sdLoop EXCEPT ![l] = IF sdRunning THEN "get" ELSE "exited"]
    /\ UNCHANGED << sdRunning, sdQueue, sdFeeder, sdFetch, sdPending, sdPool,
                    sdSubmitter, sdResults, sdCleanup >>
    /\ UNCHANGED notSd

\* wait_for(get, 5.0) delivers: a sentinel ends the loop, a task is processed
SdLoopGet(l) ==
    /\ sdLast' = "SdLoopGet"
    /\ sdLoop[l] = "get"
    /\ sdQueue # << >>
    /\ sdQueue' = Tail(sdQueue)
    /\ sdLoop' = [sdLoop EXCEPT ![l] = IF Head(sdQueue) = 0 THEN "exited" ELSE "process"]
    /\ UNCHANGED << sdRunning, sdFeeder, sdFetch, sdPending, sdPool, sdSubmitter,
                    sdResults, sdCleanup >>
    /\ UNCHANGED notSd

\* wait_for(get, 5.0) times out on an empty queue: release and `continue`
SdLoopGetTimeout(l) ==
    /\ sdLast' = "SdLoopGetTimeout"
    /\ sdLoop[l] = "get"
    /\ sdQueue = << >>
    /\ sdLoop' = [sdLoop EXCEPT ![l] = "top"]
    /\ UNCHANGED << sdRunning, sdQueue, sdFeeder, sdFetch, sdPending, sdPool,
                    sdSubmitter, sdResults, sdCleanup >>
    /\ UNCHANGED notSd

\* _process_task returns (its HTTP calls return), the result is queued
SdLoopDone(l) ==
    /\ sdLast' = "SdLoopDone"
    /\ sdLoop[l] = "process"
    /\ sdLoop' = [sdLoop EXCEPT ![l] = "top"]
    /\ sdResults' = TRUE
    /\ UNCHANGED << sdRunning, sdQueue, sdFeeder, sdFetch, sdPending, sdPool,
                    sdSubmitter, sdCleanup >>
    /\ UNCHANGED notSd

\* _worker_pool wakes from its 2 s sleep with _running false and gathers
\* the loops
SdPoolWakes ==
    /\ sdLast' = "SdPoolWakes"
    /\ sdPool = "watching"
    /\ ~sdRunning
    /\ sdPool' = "gathering"
    /\ UNCHANGED << sdRunning, sdQueue, sdFeeder, sdFetch, sdPending, sdLoop,
                    sdSubmitter, sdResults, sdCleanup >>
    /\ UNCHANGED notSd

\* every loop has ended: the gather of _worker_pool returns
SdPoolGathered ==
    /\ sdLast' = "SdPoolGathered"
    /\ sdPool = "gathering"
    /\ \A l \in SdLoops : sdLoop[l] = "exited"
    /\ sdPool' = "exited"
    /\ UNCHANGED << sdRunning, sdQueue, sdFeeder, sdFetch, sdPending, sdLoop,
                    sdSubmitter, sdResults, sdCleanup >>
    /\ UNCHANGED notSd

\* _batch_submitter takes what is queued and submits it
SdSubmit ==
    /\ sdLast' = "SdSubmit"
    /\ sdSubmitter = "running"
    /\ sdResults
    /\ sdResults' = FALSE
    /\ UNCHANGED << sdRunning, sdQueue, sdFeeder, sdFetch, sdPending, sdLoop, sdPool,
                    sdSubmitter, sdCleanup >>
    /\ UNCHANGED notSd

\* `while self._running or not self._result_queue.empty()` fails
SdSubmitterExits ==
    /\ sdLast' = "SdSubmitterExits"
    /\ sdSubmitter = "running"
    /\ ~sdRunning
    /\ ~sdResults
    /\ sdSubmitter' = "exited"
    /\ UNCHANGED << sdRunning, sdQueue, sdFeeder, sdFetch, sdPending, sdLoop, sdPool,
                    sdResults, sdCleanup >>
    /\ UNCHANGED notSd

\* asyncio.gather in start() returns once feeder, pool and submitter have
\* returned (the other gathered coroutines leave at their next wake-up);
\* start() goes on to _cleanup, which flushes the result queue
SdGatherReturns ==
    /\ sdLast' = "SdGatherReturns"
    /\ sdFeeder = "exited"
    /\ sdPool = "exited"
    /\ sdSubmitter = "exited"
    /\ ~sdCleanup
    /\ sdCleanup' = TRUE
    /\ sdResults' = FALSE
    /\ UNCHANGED << sdRunning, sdQueue, sdFeeder, sdFetch, sdPending, sdLoop, sdPool,
                    sdSubmitter >>
    /\ UNCHANGED notSd

SdIdle ==
    /\ sdRunning = TRUE
    /\ sdQueue = << >>
    /\ sdFeeder = "top"
    /\ sdFetch = 0
    /\ sdPending = 0
    /\ sdLoop = [l \in SdLoops |-> "top"]
    /\ sdPool = "watching"
    /\ sdSubmitter = "running"
    /\ sdResults = FALSE
    /\ sdCleanup = FALSE
    /\ sdLast = "none"

NextShutdown ==
    \/ SdFeederTop
    \/ \E n \in 0..SdQueueSize : SdPullReturns(n)
    \/ SdFeederPut
    \/ SdFeederWake
    \/ SdStop
    \/ \E l \in SdLoops : SdLoopTop(l)
    \/ \E l \in SdLoops : SdLoopGet(l)
    \/ \E l \in SdLoops : SdLoopGetTimeout(l)
    \/ \E l \in SdLoops : SdLoopDone(l)
    \/ SdPoolWakes
    \/ SdPoolGathered
    \/ SdSubmit
    \/ SdSubmitterExits
    \/ SdGatherReturns

\* every coroutine that can run does run, and every awaited call returns
SdProgress ==
    \/ SdFeederTop
    \/ \E n \in 0..SdQueueSize : SdPullReturns(n)
    \/ SdFeederPut
    \/ SdFeederWake
    \/ \E l \in SdLoops : SdLoopTop(l) \/ SdLoopGet(l) \/ SdLoopGetTimeout(l) \/ SdLoopDone(l)
    \/ SdPoolWakes
    \/ SdPoolGathered
    \/ SdSubmit
    \/ SdSubmitterExits
    \/ SdGatherReturns

\* ========================================================================
\* Specifications: one side moves, the others rest in their initial state
\* ========================================================================
\* the worker as constructed, the server at rest
InitWorker == InitCtl /\ CoordIdle /\ DbIdle /\ PutIdle /\ FeedIdle /\ ProcIdle /\ BucketIdle /\ MetricIdle /\ SessIdle /\ LifeIdle /\ TunIdle /\ OwIdle /\ IfIdle /\ TpsIdle /\ BatchIdle /\ RzIdle /\ SdIdle
\* the coordinator in any of the explored registry states
InitAllocator == InitAlloc /\ DbIdle /\ PutIdle /\ FeedIdle /\ ProcIdle /\ BucketIdle /\ MetricIdle /\ SessIdle /\ LifeIdle /\ TunIdle /\ OwIdle /\ IfIdle /\ TpsIdle /\ BatchIdle /\ RzIdle /\ SdIdle
\* every side as constructed
InitIdle == CtlIdle /\ CoordIdle /\ DbIdle /\ PutIdle /\ FeedIdle /\ ProcIdle /\ BucketIdle /\ MetricIdle /\ SessIdle /\ LifeIdle /\ TunIdle /\ OwIdle /\ IfIdle /\ TpsIdle /\ BatchIdle /\ RzIdle /\ SdIdle

SpecCtl == InitWorker /\ [][NextCtl]_vars
SpecEpoch == InitWorker /\ [][NextEpoch]_vars
SpecSem == InitWorker /\ [][NextSem]_vars
SpecAlloc == InitAllocator /\ [][NextAlloc]_vars
SpecCoord == InitIdle /\ [][NextCoord]_vars
SpecDb == InitIdle /\ [][NextDb]_vars
\* _timeout_task_loop runs reset_timeout_tasks every 60 s for ever, and both
\* of its awaited statements return
SpecDbLive == InitIdle /\ [][NextDb]_vars /\ WF_vars(SweepReset) /\ WF_vars(SweepCommit)
SpecSettings == InitIdle /\ [][NextPut]_vars
SpecFeeder == InitWorker /\ [][NextFeed]_vars
SpecProc == InitIdle /\ [][NextProc]_vars
\* a limiter constructed with any of the explored rates
InitLimiter == CtlIdle /\ CoordIdle /\ DbIdle /\ PutIdle /\ FeedIdle /\ ProcIdle /\ InitBucket /\ MetricIdle /\ SessIdle /\ LifeIdle /\ TunIdle /\ OwIdle /\ IfIdle /\ TpsIdle /\ BatchIdle /\ RzIdle /\ SdIdle
SpecBucket == InitLimiter /\ [][NextBucket]_vars
SpecMetric == InitIdle /\ [][NextMetric]_vars
\* Worker.start awaits _init_session; initialize() and the sleeps return
SpecSession == InitIdle /\ [][NextSess]_vars /\ WF_vars(SessProgress)
InitHealth == CtlIdle /\ HealthStart /\ DbIdle /\ PutIdle /\ FeedIdle /\ ProcIdle /\ BucketIdle /\ MetricIdle /\ SessIdle /\ LifeIdle /\ TunIdle /\ OwIdle /\ IfIdle /\ TpsIdle /\ BatchIdle /\ RzIdle /\ SdIdle
SpecHealth == InitHealth /\ [][NextAlloc]_vars
SpecLife == InitIdle /\ [][NextLife]_vars
\* the first init_tunnel_channels got proxies for any number of channels
InitTunnel == CtlIdle /\ CoordIdle /\ DbIdle /\ PutIdle /\ FeedIdle /\ ProcIdle /\ BucketIdle /\ MetricIdle /\ SessIdle /\ LifeIdle /\ InitTun /\ OwIdle /\ IfIdle /\ TpsIdle /\ BatchIdle /\ RzIdle /\ SdIdle
SpecTunnel == InitTunnel /\ [][NextTun]_vars
SpecWindow == InitWorker /\ [][NextWindow]_vars
SpecInflight == InitIdle /\ [][NextInflight]_vars
SpecTps == InitIdle /\ [][NextTps]_vars
\* settings writes on the coordinator, syncs on the worker
VersionRequests == { d \in Requests : Cardinality(DOMAIN d) <= 1 }
NextVersion ==
    \/ \E data \in VersionRequests : PutSettings(data)
    \/ \E r \in VersionResponses : SyncApply(r)
SpecVersion == InitIdle /\ [][NextVersion]_vars
SpecBatch == InitIdle /\ [][NextBatch]_vars
SpecResize == InitIdle /\ [][NextResize]_vars
SpecShutdown == InitIdle /\ [][NextShutdown]_vars /\ WF_vars(SdProgress)

\* ------------------------------------------------------------------------
\* Properties of the worker side
\* ------------------------------------------------------------------------

Holders == { l \in Loops : loopPc[l] = "holding" }

\* C1: once every loop that acquired a permit has released it, the permits
\* available on the controller's current semaphore equal the target C.
C1_DrainedPermitsEqualTarget ==
    Holders = {} => semValue = concurrency

\* C2: once the loops that were in flight at a shrink have released (no held
\* permit stems from a replaced semaphore), the number of loops between
\* acquire() and release() does not exceed the target C.
C2_HoldersWithinTarget ==
    (\A l \in Holders : ~loopOld[l]) => Cardinality(Holders) <= concurrency

\* C7: the worker's local block epoch never decreases, and the worker reacts
\* (halving branch) at most once to each epoch value.
C7_EpochMonotoneOnce ==
    /\ [](\A e \in 1..MaxEpoch : reacted[e] <= 1)
    /\ [][blockEpoch' >= blockEpoch]_vars

\* C7 witness: an active descriptor carrying the epoch the worker has already
\* reacted to was applied again.
C7_Witness ==
    /\ lastSync = "same_epoch"
    /\ blockEpoch >= 1
    /\ reacted[blockEpoch] = 1

\* C8: after a sync applied the quota concurrency q, the target C stays at
\* most q until a later sync applies another quota.
C8_QuotaIsCeiling ==
    lastQuota # 0 => concurrency <= lastQuota

\* ------------------------------------------------------------------------
\* Properties of the coordinator side
\* ------------------------------------------------------------------------
QuotaHolders == { w \in Workers : workerQuotas[w] # NoQuota }
SumConcQuota == SumOver([w \in QuotaHolders |-> workerQuotas[w].concurrency], QuotaHolders)
SumQpsQuota == SumOver([w \in QuotaHolders |-> workerQuotas[w].qps], QuotaHolders)
PassCompleted == lastAct # "init" /\ ~coordHung

\* C3: after every completed _allocate_quotas pass the concurrency quotas of
\* the workers sum to at most global_max_concurrency, cooldown or not.
C3_ConcurrencyWithinBudget ==
    PassCompleted => SumConcQuota <= gMaxConc

\* C4: after every completed _allocate_quotas pass the qps quotas of the
\* workers sum to at most global_max_qps plus one rounding unit (0.01).
C4_QpsWithinBudget ==
    PassCompleted => SumQpsQuota <= gMaxQps + 1

\* C6: a metrics report that arrives while now < global_block_until changes
\* neither recovery_epoch, block_count, global_block_until, block_triggered_by
\* nor the recovery jitter table; a step raises epoch and count together and
\* by at most one.
C6_CooldownReportsInert ==
    [][ /\ (lastAct' = "report" /\ cNow < globalBlockUntil)
             => UNCHANGED << recoveryEpoch, blockCount, globalBlockUntil,
                             blockTriggeredBy, recoveryJitter >>
        /\ recoveryEpoch' - recoveryEpoch \in {0, 1}
        /\ blockCount' - blockCount = recoveryEpoch' - recoveryEpoch ]_vars

\* a report above the threshold was handled during a cooldown
C6_Witness ==
    /\ lastAct = "report"
    /\ lastReport.high
    /\ lastReport.cooling
    /\ recoveryEpoch >= 1

\* C16: after every completed allocation pass the workers holding a quota
\* are exactly the registered workers last seen less than 60 seconds ago; a
\* worker last seen 60 seconds ago or earlier holds none, and with no such
\* worker the quota map is empty.
RecentlySeen ==
    { w \in SeqToSet(regOrder) : cNow - lastSeen[w] < ACTIVE_WINDOW_S }
C16_HoldersAreActive ==
    (lastAct \in {"report", "sweep"} /\ ~coordHung) => QuotaHolders = RecentlySeen

\* a pass gave quotas to the active workers and none to a registered worker
\* last seen exactly 60 seconds ago
C16_Witness ==
    /\ lastAct = "sweep"
    /\ ~coordHung
    /\ QuotaHolders # {}
    /\ \E w \in SeqToSet(regOrder) :
          cNow - lastSeen[w] = ACTIVE_WINDOW_S /\ workerQuotas[w] = NoQuota

\* C18: after every pass made while now < global_block_until the concurrency
\* quotas sum to at most max(n * min_concurrency, global_max_concurrency
\* div 2), n the number of active workers, whatever the recovery jitters;
\* such a pass always completes.
CooldownBudget ==
    Max(Cardinality(RecentlySeen) * gMinConc, gMaxConc \div 2)
C18_CooldownSumWithinHalf ==
    (lastAct = "sweep" /\ cNow < globalBlockUntil) =>
        /\ ~coordHung
        /\ SumConcQuota <= CooldownBudget

\* a cooldown pass handed out the whole cooldown budget, which here exceeds
\* the configured global budget
C18_Witness ==
    /\ lastAct = "sweep"
    /\ cNow < globalBlockUntil
    /\ ~coordHung
    /\ SumConcQuota = CooldownBudget
    /\ SumConcQuota > gMaxConc
    /\ \E w \in QuotaHolders : w \in DOMAIN recoveryJitter

\* C19: a metrics report starts a global block exactly when its block_rate
\* is above block_rate_threshold and now >= global_block_until.  Then
\* global_block_until = now + cooldown_after_block, block_triggered_by is
\* the reporter, recovery_epoch and block_count each grow by one and every
\* registered worker has a recovery jitter in [0, 1].  Otherwise none of
\* these changes.  Either way only the reporter's metrics are stored.
C19_BlockStartsIff ==
    [][ lastAct' = "report" =>
          /\ IF lastReport'.high /\ ~lastReport'.cooling
             THEN /\ globalBlockUntil' = cNow + COOLDOWN_AFTER_BLOCK_S
                  /\ blockTriggeredBy' = lastReport'.by
                  /\ recoveryEpoch' = recoveryEpoch + 1
                  /\ blockCount' = blockCount + 1
                  /\ \A w \in SeqToSet(regOrder') :
                        /\ w \in DOMAIN recoveryJitter'
                        /\ recoveryJitter'[w] \in 0..100
             ELSE UNCHANGED << globalBlockUntil, blockTriggeredBy, recoveryEpoch,
                               blockCount, recoveryJitter >>
          /\ workerMetrics'[lastReport'.by].reported_at = cNow
          /\ \A w \in Workers \ {lastReport'.by} : workerMetrics'[w] = workerMetrics[w]
      ]_vars

\* a report started the second global block, right when the first ended
C19_Witness ==
    /\ lastAct = "report"
    /\ lastReport.high
    /\ ~lastReport.cooling
    /\ blockTriggeredBy = lastReport.by
    /\ recoveryEpoch = 2
    /\ globalBlockUntil = cNow + COOLDOWN_AFTER_BLOCK_S
    /\ Len(regOrder) = 2

\* ------------------------------------------------------------------------
\* Properties of the task store
\* ------------------------------------------------------------------------

\* C5: no task id is returned by two pull_tasks calls unless the task went
\* back to pending between the two pulls.
C5_NoDoubleHandOut ==
    \A t \in Tasks : handedOut[t] <= 1

\* ------------------------------------------------------------------------
\* Properties of the settings handler
\* ------------------------------------------------------------------------

\* C9: a PUT /api/settings that fails leaves every settings key and the
\* settings version as they were before the request.
C9_FailedPutChangesNothing ==
    [][ putOutcome' \in {"rejected", "crashed"}
          => (srvSettings' = srvSettings /\ srvVersion' = srvVersion) ]_vars

\* ------------------------------------------------------------------------
\* Properties of the task feeder
\* ------------------------------------------------------------------------

\* C10: once the feeder has enqueued a response that carries a priority > 0
\* task, every entry of the task queue is a task of that response: nothing
\* that was queued before the response is left.
C10_PriorityResponseOwnsQueue ==
    (justEnqueued /\ respPriority)
        => \A i \in 1..Len(taskQueue) : taskQueue[i] = respNo

\* a priority response that met a non-empty queue has been enqueued
C10_Witness ==
    /\ justEnqueued
    /\ respPriority
    /\ priorLen > 0
    /\ respNo >= 2
    /\ taskQueue # << >>

\* ------------------------------------------------------------------------
\* Properties of task processing
\* ------------------------------------------------------------------------

\* C11: a call of _process_task has put exactly one result for its task on
\* the result queue when it returns.
C11_ExactlyOneResult ==
    ptPc = "returned" => ptResults = 1

\* C12: a call runs at most max_retries iterations, max_retries being the
\* instance value at the start of the call; every iteration that does not
\* return increments attempt; a call that never found a usable session
\* reports the failure after exactly max_retries attempts.
C12_BoundedAttempts ==
    /\ ptIters <= ptMaxRetries
    /\ ptAttempt <= ptMaxRetries
    /\ ptPc = "loop" => ptAttempt = ptIters
    /\ (ptPc = "returned" /\ ptNeverReady)
          => (ptReturn = "failed" /\ ptIters = ptMaxRetries /\ ptResults = 1)

\* a call that never found a usable session has returned while the instance
\* value had changed under it
C12_Witness ==
    /\ ptPc = "returned"
    /\ ptNeverReady
    /\ ptReturn = "failed"
    /\ ptIters = ptMaxRetries
    /\ ptMaxRetries >= 2
    /\ wMaxRetries # ptMaxRetries

\* ------------------------------------------------------------------------
\* Properties of the rate limiter
\* ------------------------------------------------------------------------

ReturnsIn(t1, t2) == SumOver([t \in t1..t2 |-> tbReturns[t]], t1..t2)

\* C13: in every window of at least 2 seconds the number of acquire() calls
\* that returned is at most rate * T + burst, and the token count is never
\* negative.
C13_RateBound ==
    /\ tbTokens >= 0
    /\ \A t1 \in 0..tbNow : \A t2 \in t1..tbNow :
          (t2 - t1 >= Seconds(2))
             => Quarters(ReturnsIn(t1, t2)) <= tbRate * (t2 - t1) + Quarters(tbBurst)

\* a window of 2 seconds that the callers filled to the bound
C13_Witness ==
    /\ tbNow >= Seconds(2)
    /\ \E c \in BucketCallers : tbPc[c] = "idle" /\ tbWaited[c]
    /\ Quarters(ReturnsIn(tbNow - Seconds(2), tbNow))
          > tbRate * Seconds(2) + Quarters(tbBurst - 1)

\* ------------------------------------------------------------------------
\* Properties of the metrics window
\* ------------------------------------------------------------------------

\* twice the linear-interpolated median of a sorted sample
TwiceMedian(sorted) ==
    LET n == Len(sorted)
    IN  IF n % 2 = 1 THEN 2 * sorted[(n + 1) \div 2]
        ELSE sorted[n \div 2] + sorted[n \div 2 + 1]

\* C14: for a non-empty window the p50 of snapshot() is the linear-interpolated
\* median of the sorted latencies.
C14_P50IsMedian ==
    (mFresh /\ mTotal > 0)
        => 2 * mP50 = TwiceMedian(SortedLatencies(mRecords))

\* ------------------------------------------------------------------------
\* Properties of session readiness
\* ------------------------------------------------------------------------

\* C15: an operation that cleared _session_ready has set it again when it
\* ends, after a success and after three failed attempts alike; so the
\* event never stays cleared and no task waits on it forever.
C15_ReadySetAgain ==
    /\ [](srLast \in {"init_ok", "init_failed", "rotate_ok", "rotate_failed"} => srReady)
    /\ (~srReady ~> srReady)
    /\ ((srTaskPc = "waiting") ~> (srTaskPc # "waiting"))

\* a rotation ended after three failed attempts
C15_Witness ==
    /\ srLast = "rotate_failed"
    /\ srSession = "none"
    /\ srReady

\* C17: after a pass outside a cooldown, of two active workers with fresh
\* metrics the one with the higher health score holds neither a smaller
\* concurrency quota nor a smaller qps quota; with budget 30 and two workers
\* reporting 95 % / 0 % and 60 % / 10 % the healthier one holds strictly more.
FreshHolders ==
    { w \in QuotaHolders :
        /\ workerMetrics[w] # NoMetrics
        /\ cNow - workerMetrics[w].reported_at <= METRICS_FRESH_S }
C17_HealthierNotLess ==
    (lastAct = "sweep" /\ ~coordHung /\ ~InCooldown(CoordState)) =>
        /\ \A a \in FreshHolders : \A b \in FreshHolders :
              Score(CoordState, a) > Score(CoordState, b) =>
                  /\ workerQuotas[a].concurrency >= workerQuotas[b].concurrency
                  /\ workerQuotas[a].qps >= workerQuotas[b].qps
        /\ \A a \in FreshHolders : \A b \in FreshHolders :
              ( /\ QuotaHolders = {a, b}
                /\ gMaxConc = 30
                /\ workerMetrics[a].success_rate = 95 /\ workerMetrics[a].block_rate = 0
                /\ workerMetrics[b].success_rate = 60 /\ workerMetrics[b].block_rate = 10 )
              => /\ workerQuotas[a].concurrency > workerQuotas[b].concurrency
                 /\ workerQuotas[a].qps > workerQuotas[b].qps

\* C22: no row stays processing for longer than the task timeout for ever;
\* every reset_timeout_tasks call, periodic or inside a pull, sets exactly
\* the rows that are processing for longer than the timeout back to pending
\* (the same UPDATE clears their worker_id) and changes no row that is
\* pending or processing for less than the timeout.
StaleRow(t) == taskRows[t].status = "processing" /\ taskRows[t].timed_out
ResetStep ==
    \/ sweepPc = "idle" /\ sweepPc' = "commit"
    \/ \E p \in Pullers : pullPc[p] = "reset" /\ pullPc'[p] = "reset_commit"
C21_RetryWithinCeiling ==
    \A t \in LifeTasks : tkRetry[t] <= MAX_RETRIES

\* C20: once a task is done, no result submission (single or batch, success
\* or failure, from any worker, late ones included), no release and no
\* timeout sweep changes its status.
C20_DoneIsFinal ==
    [][ \A t \in LifeTasks : tkStatus[t] = "done" => tkStatus'[t] = "done" ]_vars

\* ------------------------------------------------------------------------
\* Properties of the tunnel channels
\* ------------------------------------------------------------------------

\* C23: a task that found every channel blocked neither uses up a retry
\* attempt nor fails before HandleIPRotation has run: while the number of
\* rotations is what it was when the task found no channel, a step of the
\* waiting task leaves its attempt alone; and a rotation leaves every
\* channel unblocked with round-robin returning a channel.
C23_WaitsForRotation ==
    /\ [][ \A t \in TunTasks :
             (tnPc[t] = "wait" /\ rotations = tnSeen[t])
                => (tnAttempt'[t] = tnAttempt[t] /\ tnPc'[t] # "failed") ]_vars
    /\ [][ rotations' # rotations
             => (~(\E c \in ChannelIds : chBlocked'[c])
                 /\ get_available_channel(chBlocked', chHasUrl', rrIndex') \in ChannelIds) ]_vars

\* C24: every call of _allocate_quotas terminates: no pass leaves the event
\* loop inside the final trim, whatever the number of active workers and the
\* validated settings.
C24_AllocateQuotasTerminates == coordHung = FALSE

\* C25: in every reachable state of the worker (construction, evaluation
\* ticks, settings syncs that change min_concurrency, quota applications,
\* global-block halvings) the concurrency target is at least the lower
\* bound: C >= C_min.
C25_TargetAtLeastMin == concurrency >= ctlMin

\* C26: while the clock is before the controller's cooldown deadline no
\* evaluation tick and no sync response increases the concurrency target.
C26_NoIncreaseInCooldown ==
    [][ wClock < cooldownUntil => concurrency' <= concurrency ]_vars

\* the table of one evaluation tick as a relation between the snapshot, the
\* state before the tick and the target c2 and deadline d2 after it
TickTable(snap, c2, d2) ==
    IF snap.total < 5
    THEN c2 = concurrency /\ d2 = cooldownUntil
    ELSE IF snap.block_rate > BLOCK_RATE_THRESHOLD
    THEN /\ c2 = Max(ctlMin, (concurrency * decreaseFactor) \div 100)
         /\ d2 = wClock + cooldownDuration
    ELSE IF snap.success_rate < MIN_SUCCESS_RATE \/ snap.latency_p50 > MAX_LATENCY_S
    THEN c2 = Max(ctlMin, (concurrency * decreaseFactor) \div 100)
    ELSE IF snap.bandwidth_pct > BANDWIDTH_SOFT_CAP \/ wClock < cooldownUntil
    THEN c2 = concurrency
    ELSE IF snap.success_rate >= TARGET_SUCCESS_RATE /\ snap.latency_p50 < TARGET_LATENCY_S
    THEN c2 \in { concurrency, Min(ctlMax, concurrency + 1) }
    ELSE c2 = concurrency

\* C27: one evaluation tick computes the priority-ordered decision table:
\* under 5 samples nothing changes; else a block rate over the threshold
\* gives max(C_min, floor(C * k)) and a new cooldown deadline whatever else
\* holds; else low success or high latency gives max(C_min, floor(C * k));
\* else saturated bandwidth or an active cooldown holds C; else a healthy
\* window gives C or min(C_max, C + 1); else C is held.
C27_DecisionTable ==
    /\ [](\A snap \in Snapshots :
             snap.total >= MIN_SAMPLES => TickTable(snap, Decide(snap)[1], Decide(snap)[2]))
    /\ [][ \A snap \in Snapshots :
             (Evaluate(snap) \/ EvaluateSkip(snap))
                => TickTable(snap, concurrency', cooldownUntil') ]_vars

\* a tick inside a cooldown, after time has passed, took the block branch
C27_Witness ==
    /\ wClock > 0
    /\ cooldownUntil = wClock + cooldownDuration
    /\ concurrency = ctlMin
    /\ ctlMin < ctlMax

\* C28: a sync response whose block descriptor carries an epoch above the
\* worker's local block epoch makes the worker take that epoch and set C to
\* max(C_min, floor(C / 2)), whether the descriptor is active or its cooldown
\* has expired (for C, in the responses whose quota does not shrink C first).
C28_NewerEpochHalves ==
    [][ \A r \in SyncResponses :
          (SyncApply(r) /\ r.epoch > blockEpoch)
             => /\ blockEpoch' = r.epoch
                /\ r.quota >= concurrency
                      => concurrency' = Max(ctlMin', concurrency \div 2) ]_vars

\* C29: a worker that reacts to a new global-block epoch (an active
\* descriptor with an epoch above its own) sets its cooldown deadline to
\* now + remaining_s, whether or not the halving changes C.
C29_ReactionSetsCooldown ==
    [][ \A r \in SyncResponses :
          (SyncApply(r) /\ r.active /\ r.epoch > blockEpoch)
             => cooldownUntil' = wClock + r.remaining_s ]_vars

\* C30: a task whose processing met an anti-bot block (403/503, captcha,
\* API-block page) returns blocked = true to the metrics window, in TPS and
\* in tunnel mode, whether a later retry succeeds or the retries run out;
\* stated for the tasks whose last error was a block (last_error_type is
\* "blocked" or "captcha" at the return).
C30_BlockIsRecorded ==
    (ptPc = "returned" /\ ptErrorType \in {"blocked", "captcha"}) => ptReturn = "blocked"

\* ------------------------------------------------------------------------
\* Properties of the task outcomes in the metrics window
\* ------------------------------------------------------------------------

OnlyPagesAndParseErrors ==
    \A i \in 1..Len(owRecords) : owRecords[i] \in {"page", "parse_exhausted"}

\* C31: tasks that use up their retries through parse or empty-page errors
\* alone neither lower the success rate nor raise the block rate of the
\* window, so with only such tasks and parsed pages in the window no
\* evaluation tick decreases C.
C31_ParseErrorsDoNotThrottle ==
    /\ [](OnlyPagesAndParseErrors =>
             (SuccessPct(owRecords) = 100 /\ BlockPct(owRecords) = 0))
    /\ [][ OnlyPagesAndParseErrors => concurrency' >= concurrency ]_vars

\* ------------------------------------------------------------------------
\* Properties of the in-flight accounting
\* ------------------------------------------------------------------------

BetweenAcquireAndRelease == { l \in IfLoops : ifPc[l] \in {"get", "task"} }

\* C32: every acquire() that returned is followed by exactly one release()
\* on every way out of the loop body (dequeue timeout, sentinel, completed
\* task, exception, cancellation); the in-flight counter equals the number
\* of loops between acquire and release, is never negative, and is 0 once
\* every loop has exited.
C32_InflightMatchesHolders ==
    /\ \A l \in IfLoops : ifBalance[l] = (IF l \in BetweenAcquireAndRelease THEN 1 ELSE 0)
    /\ ifInflight = Cardinality(BetweenAcquireAndRelease)
    /\ ifInflight >= 0
    /\ (\A l \in IfLoops : ifPc[l] = "exited") => ifInflight = 0

\* the pool has drained and the last loop left through a cancellation while
\* it held a slot
C32_Witness ==
    /\ \A l \in IfLoops : ifPc[l] = "exited"
    /\ ifLast = "cancelled_holding"
    /\ ifSem = IfSlots

\* C33: HandleIPRotation returns true only once the rotation deadline has
\* passed; a true return clears every channel's blocked flag; and the
\* rotation moves the deadline a rotation interval ahead (at the latest when
\* the watcher's round, the channel refresh included, is over), whether or
\* not the proxy API returned proxies, so that it is true at most once per
\* interval.
C33_RotationOncePerInterval ==
    /\ [][ rotations' # rotations
             => (tunNow >= rotationAt /\ \A c \in ChannelIds : ~chBlocked'[c]) ]_vars
    /\ [][ (watchPc = "rebuild" /\ watchPc' = "sleep")
             => rotationAt' >= tunNow + RotateTicks ]_vars

\* C34: get_available_channel never returns a channel whose blocked flag is
\* set or whose proxy URL is empty: the channel a task is given is none of
\* these at the selection, and so is what the next selection would return
\* in every reachable state of the channels.
C34_SelectsOnlyUsableChannels ==
    /\ [](\/ get_available_channel(chBlocked, chHasUrl, rrIndex) = 0
          \/ /\ get_available_channel(chBlocked, chHasUrl, rrIndex) \in ChannelIds
             /\ ~chBlocked[get_available_channel(chBlocked, chHasUrl, rrIndex)]
             /\ chHasUrl[get_available_channel(chBlocked, chHasUrl, rrIndex)])
    /\ [][ \A t \in TunTasks :
             (tnPc[t] = "acquire" /\ tnPc'[t] = "request")
                => (~chBlocked[tnChannel'[t]] /\ chHasUrl[tnChannel'[t]]) ]_vars

\* a task has just been given a channel while another channel is blocked
\* and a third has no proxy URL
C34_Witness ==
    /\ tnLast = "channel"
    /\ \E t \in TunTasks : tnPc[t] = "request" /\ tnChannel[t] \in ChannelIds
                             /\ ~chBlocked[tnChannel[t]] /\ chHasUrl[tnChannel[t]]
    /\ \E c \in ChannelIds : chBlocked[c] /\ chHasUrl[c]
    /\ \E c \in ChannelIds : ~chHasUrl[c]

\* ------------------------------------------------------------------------
\* Properties of the TPS proxy cache
\* ------------------------------------------------------------------------

\* C35: in TPS mode at most one proxy-API call is in flight at a time, and
\* a caller that queued on the lock and finds, when it gets the lock, a
\* proxy that another caller obtained and that is still valid returns that
\* proxy without an API call of its own.
C35_SingleFlight ==
    /\ [](tpInFlight <= 1)
    /\ [][ \A c \in TpsCallers :
             (tpPc[c] = "locked" /\ tpPc'[c] # "locked" /\ tpWaited[c]
                /\ tpCurrent # 0 /\ tpValid)
                => (tpPc'[c] = "done" /\ tpResult'[c] = tpCurrent /\ tpCalls'[c] = 0) ]_vars

\* a caller that queued behind a fetching caller came back with the proxy
\* fetched by the other, having called the API itself not once, while a
\* third caller still waits
C35_Witness ==
    \E c \in TpsCallers :
        /\ tpPc[c] = "done" /\ tpWaited[c] /\ tpCalls[c] = 0
        /\ tpResult[c] = tpCurrent /\ tpCurrent # 0
        /\ tpFetched = 1

\* ------------------------------------------------------------------------
\* Properties of the stored settings
\* ------------------------------------------------------------------------

\* C36: after any sequence of PUT /api/settings requests, accepted or not,
\* the stored settings satisfy min_concurrency <= initial_concurrency <=
\* max_concurrency and target_latency < max_latency, and every validated
\* field lies within its declared range (stated for the keys of
\* SettingKeys).
C36_StoredSettingsConsistent ==
    /\ srvSettings.min_concurrency <= srvSettings.initial_concurrency
    /\ srvSettings.initial_concurrency <= srvSettings.max_concurrency
    /\ srvSettings.target_latency < srvSettings.max_latency
    /\ \A i \in 1..Len(SettingKeys) :
          /\ srvSettings[SettingKeys[i]] >= Validators[SettingKeys[i]].lo
          /\ srvSettings[SettingKeys[i]] <= Validators[SettingKeys[i]].hi

\* ------------------------------------------------------------------------
\* Properties of the settings version
\* ------------------------------------------------------------------------

\* C40: the worker applies the settings of a sync response only when the
\* response's version is strictly greater than its local version (else
\* its settings and its version stay as they are), the local version
\* never decreases, the coordinator's version never decreases, and the
\* coordinator's version grows by exactly 1 on each successful settings
\* write (a request answered 200 that stored a value) and on no other step.
C40_VersionsOnlyGrow ==
    /\ [][ \A r \in VersionResponses : SyncApply(r) =>
             IF r.version > settingsVersion
             THEN settingsVersion' = r.version /\ ctlMin' = r.min_concurrency
             ELSE UNCHANGED << settingsVersion, ctlMin, cooldownDuration >> ]_vars
    /\ [][settingsVersion' >= settingsVersion]_vars
    /\ [][srvVersion' >= srvVersion]_vars
    /\ [][ (putOutcome' = "ok" /\ srvSettings' # srvSettings) => srvVersion' = srvVersion + 1 ]_vars
    /\ [][ srvVersion' # srvVersion =>
             (srvVersion' = srvVersion + 1 /\ putOutcome' = "ok" /\ srvSettings' # srvSettings) ]_vars

\* the coordinator took two settings writes, and the worker has synced and
\* holds version 2 with the min_concurrency that response carried
C40_Witness ==
    /\ srvVersion = 2
    /\ settingsVersion = 2
    /\ putOutcome = "ok"
    /\ ctlMin = 2
    /\ lastSync = "plain"

\* ------------------------------------------------------------------------
\* Properties of the result queue
\* ------------------------------------------------------------------------

\* the number of handed batches that hold result n
TimesHanded(n) ==
    Cardinality({ i \in 1..Len(sbHanded) :
                    \E j \in 1..Len(sbHanded[i]) : sbHanded[i][j] = n })

\* C38: every result put on the result queue is handed to _submit_batch in
\* exactly one batch of 1..batch_size items: every batch has 1..batch_size
\* items, no result is in two batches, and once _cleanup has flushed, no
\* result put on the queue is left out.
C38_EachResultInOneBatch ==
    /\ \A i \in 1..Len(sbHanded) :
          Len(sbHanded[i]) >= 1 /\ Len(sbHanded[i]) <= BatchSize
    /\ \A n \in 1..sbProduced : TimesHanded(n) <= 1
    /\ sbCleanup => \A n \in 1..sbProduced : TimesHanded(n) = 1

\* ------------------------------------------------------------------------
\* Properties of the interleaved resizes
\* ------------------------------------------------------------------------

\* C39: the stored target C and the semaphore capacity change in one step
\* as seen by every other coroutine: whenever another coroutine can run,
\* C equals the capacity and equals the target of the last resize applied,
\* and every resize was passed the C stored at that moment.
C39_ResizeIsAtomic ==
    /\ rzFromCurrent
    /\ rzTurn = "none" => (rzC = rzCap /\ rzC = rzTarget)

\* the tick grew C, the sync routine then shrank it to a quota and halved it
\* for a global block, and C is the last of the three targets
C39_Witness ==
    /\ rzResizes = 3
    /\ rzTurn = "none"
    /\ rzPc = [r \in Routines |-> "idle"]
    /\ rzMax < MaxC
    /\ rzC = rzTarget
    /\ rzC = 1

\* ------------------------------------------------------------------------
\* Properties of the shutdown
\* ------------------------------------------------------------------------

\* C37: after stop(), with every outbound call returning, every processing
\* loop, the feeder, the pool supervisor and the batch submitter terminate
\* and start() reaches _cleanup, whatever the queue holds at that moment.
C37_StopTerminates ==
    (~sdRunning) ~>
        (/\ sdCleanup
         /\ sdFeeder = "exited"
         /\ sdPool = "exited"
         /\ sdSubmitter = "exited"
         /\ \A l \in SdLoops : sdLoop[l] = "exited")

====
